---- MODULE Spec2Model ----
(***************************************************************************)
(* Server-side simulation core of the platform fighter: the room           *)
(* (services/GameRoom.js), the engine (class GameState of models/Player.js),*)
(* the anti-cheat validator and the game manager (services/AntiCheat.js    *)
(* and services/GameManager.js) and the socket message handlers            *)
(* (websocket/SocketHandler.js).                                           *)
(*                                                                         *)
(* Lengths are kept in hundredths of a pixel and the special-move meter in *)
(* hundredths of a point, so that the engine's fractional constants        *)
(* (gravity 0.8, friction 0.85, meter regeneration 0.2, ...) are integers; *)
(* a product with a fractional factor is truncated towards zero.           *)
(***************************************************************************)
EXTENDS Integers, Sequences, FiniteSets, TLC

VARIABLES
    room,        \* the GameRoom object
    gameState,   \* room.gameState, the engine (class GameState)
    replayState, \* a second, fresh engine fed the same accepted inputs and ticks
    players,     \* GameManager.players: socket id -> Player object
    antiCheat,   \* the AntiCheat object: playerData, banList
    rateLimits,  \* SocketHandler.rateLimits: socket id -> requests, blockedUntil
    now,         \* Date.now(), in milliseconds
    emitted,     \* the events broadcast by the last step, in order
    last,        \* what the last step was: handler, socket, verdicts
    log,         \* what the validators accepted so far (history, for the claims)
    activeRecordings, \* ReplaySystem.activeRecordings: replay id -> the recording's session
    manager      \* GameManager.rooms and GameManager.matchmaking, the registry of rooms

vars ==
    <<room, gameState, replayState, players, antiCheat, rateLimits, now, emitted, last, log,
      activeRecordings, manager>>

(***************************************************************************)
(* Arithmetic helpers                                                      *)
(***************************************************************************)
Px(n) == n * 100

Abs(n) == IF n < 0 THEN -n ELSE n

Min(a, b) == IF a < b THEN a ELSE b

Max(a, b) == IF a > b THEN a ELSE b

\* v * num / den for a fractional factor num/den, truncated towards zero
Scale(v, num, den) == IF v >= 0 THEN (v * num) \div den ELSE -(((-v) * num) \div den)

\* Math.round(num / den) for num >= 0, den > 0
Round(num, den) == (2 * num + den) \div (2 * den)

\* distance(a, b) < r, on squares
Within(a, b, r) ==
    /\ Abs(a.x - b.x) < r /\ Abs(a.y - b.y) < r
    /\ (a.x - b.x) * (a.x - b.x) + (a.y - b.y) * (a.y - b.y) < r * r

\* distance > r
Beyond(a, b, r) ==
    \/ Abs(a.x - b.x) > r \/ Abs(a.y - b.y) > r
    \/ (a.x - b.x) * (a.x - b.x) + (a.y - b.y) * (a.y - b.y) > r * r

Vec(x, y) == [x |-> x, y |-> y]

\* { ...a, ...b } on objects represented as functions
Merge(a, b) == [k \in (DOMAIN a) \cup (DOMAIN b) |-> IF k \in DOMAIN b THEN b[k] ELSE a[k]]

\* a Map without one key
Without(f, k) == [j \in (DOMAIN f) \ {k} |-> f[j]]

Range(s) == {s[i] : i \in DOMAIN s}

(***************************************************************************)
(* Engine tables                                                           *)
(***************************************************************************)
physics ==
    [gravity |-> 80, friction |-> 85, airResistance |-> 98, maxFallSpeed |-> Px(15),
     groundLevel |-> Px(400), stageWidth |-> Px(1200), stageHeight |-> Px(600)]

mechanics ==
    [shieldDuration |-> 180, dodgeDuration |-> 20, attackCooldown |-> 15,
     comboWindow |-> 30, invulnerabilityFrames |-> 60, respawnTime |-> 180]

blueyCharacters ==
    [bluey  |-> [abilities |-> <<"keepy-uppy", "shadowlands", "dance-mode">>,
                 stats |-> [speed |-> 8, strength |-> 6, agility |-> 9]],
     bingo  |-> [abilities |-> <<"magic-asparagus", "sleepytime", "featherwand">>,
                 stats |-> [speed |-> 7, strength |-> 5, agility |-> 8]],
     bandit |-> [abilities |-> <<"takeaway", "shadowlands", "dad-dance">>,
                 stats |-> [speed |-> 6, strength |-> 9, agility |-> 7]],
     chilli |-> [abilities |-> <<"meditation", "helicopter", "yoga-ball">>,
                 stats |-> [speed |-> 7, strength |-> 7, agility |-> 8]]]

CharacterOrder == <<"bluey", "bingo", "bandit", "chilli">>

Pt(x, y) == Vec(Px(x), Px(y))

spawnPoints ==
    [backyard   |-> <<Pt(200, 300), Pt(1000, 300), Pt(400, 300), Pt(800, 300),
                      Pt(100, 300), Pt(1100, 300), Pt(300, 200), Pt(900, 200)>>,
     playground |-> <<Pt(150, 350), Pt(1050, 350), Pt(350, 250), Pt(850, 250),
                      Pt(250, 450), Pt(950, 450), Pt(500, 150), Pt(700, 150)>>,
     creek      |-> <<Pt(100, 400), Pt(1100, 400), Pt(300, 300), Pt(900, 300),
                      Pt(500, 200), Pt(700, 200), Pt(200, 500), Pt(1000, 500)>>]

Platform(x, y, w, h, t) == [x |-> Px(x), y |-> Px(y), width |-> Px(w), height |-> Px(h), type |-> t]

maps ==
    [backyard   |-> <<Platform(0, 450, 1200, 150, "solid"), Platform(100, 350, 200, 20, "platform"),
                      Platform(500, 400, 200, 50, "bouncy"), Platform(900, 250, 150, 20, "platform")>>,
     playground |-> <<Platform(0, 500, 1200, 100, "solid"), Platform(200, 400, 150, 20, "platform"),
                      Platform(450, 300, 300, 20, "platform"), Platform(850, 400, 150, 20, "platform")>>,
     creek      |-> <<Platform(0, 550, 400, 50, "solid"), Platform(500, 580, 200, 20, "platform"),
                      Platform(800, 550, 400, 50, "solid"), Platform(200, 450, 100, 20, "platform"),
                      Platform(900, 450, 100, 20, "platform")>>]

\* maps[mapId] || maps.backyard
loadMap(mapId) == IF mapId \in DOMAIN maps THEN mapId ELSE "backyard"

getSpawnPoint(mapId, playerIndex) ==
    LET points == spawnPoints[loadMap(mapId)]
    IN  points[(playerIndex % Len(points)) + 1]

getToyEffect(toyType) ==
    CASE toyType = "keepy_uppy_ball" -> [type |-> "bounce_boost", amount |-> 0, duration |-> 300, range |-> 0]
      [] toyType = "magic_asparagus" -> [type |-> "health_restore", amount |-> 50, duration |-> 0, range |-> 0]
      [] toyType = "featherwand"     -> [type |-> "flight", amount |-> 0, duration |-> 180, range |-> 0]
      [] toyType = "takeaway_phone"  -> [type |-> "teleport", amount |-> 0, duration |-> 0, range |-> Px(300)]
      [] OTHER                       -> [type |-> "none", amount |-> 0, duration |-> 0, range |-> 0]

getCollectibleValue(type) ==
    CASE type = "rainbow" -> 100
      [] type = "creek_treasure" -> 150
      [] type = "dance_sticker" -> 50
      [] OTHER -> 10

addToy(toyType, x, y) ==
    [type |-> toyType, position |-> Pt(x, y), active |-> TRUE, respawnTime |-> 300,
     effect |-> getToyEffect(toyType)]

addCollectible(type, x, y) ==
    [type |-> type, position |-> Pt(x, y), value |-> getCollectibleValue(type), collected |-> FALSE]

\* the toys and collectibles a map starts with
initializeMapElements(mapId) ==
    CASE mapId = "backyard" ->
            [toys |-> <<addToy("keepy_uppy_ball", 600, 300), addToy("magic_asparagus", 800, 200)>>,
             collectibles |-> <<>>]
      [] mapId = "playground" ->
            [toys |-> <<addToy("featherwand", 600, 250)>>,
             collectibles |-> <<addCollectible("rainbow", 300, 350)>>]
      [] mapId = "creek" ->
            [toys |-> <<addToy("takeaway_phone", 500, 400)>>,
             collectibles |-> <<addCollectible("creek_treasure", 600, 530)>>]
      [] OTHER -> [toys |-> <<>>, collectibles |-> <<>>]

(***************************************************************************)
(* The engine: class GameState                                             *)
(***************************************************************************)
InputKeys == {"left", "right", "up", "down", "attack", "special", "shield", "dodge"}

NoKeys == [k \in InputKeys |-> FALSE]

NoEffects == [k \in {} |-> 0]

\* new GameState().  History fields: created counts the projectiles created so far (a
\* projectile's id is its number), struck lists the ids of the projectiles that applied
\* damage, in order
NewGameState ==
    [initialized |-> FALSE, order |-> <<>>, players |-> [s \in {} |-> 0], entities |-> <<>>,
     toys |-> <<>>, collectibles |-> <<>>, mapId |-> "none", stockLives |-> 0, frame |-> 0,
     destroyed |-> <<>>, created |-> 0, struck |-> <<>>]

\* hit is a history field: who last hit the player, with what knockback, and the player's
\* invulnerability counter and respawn flag when applyDamage was entered
NoHit ==
    [playerId |-> "none", knockback |-> Vec(0, 0), invulnerabilityFrames |-> 0,
     isRespawning |-> FALSE]

\* history field lastAttack: the type and frame of the attack the player executed last, and
\* the frame of the one before it
NoAttack == [type |-> "none", frame |-> -1, previous |-> -1]

\* knockoutDamage is a history field: the damage the player had when last knocked out
initializePlayer(E, socketId, character) ==
    LET spawnPoint == getSpawnPoint(E.mapId, Len(E.order))
        ch == IF character \in DOMAIN blueyCharacters THEN character ELSE "bluey"
        playerState ==
            [character |-> character,
             position |-> Vec(spawnPoint.x, spawnPoint.y), velocity |-> Vec(0, 0),
             acceleration |-> Vec(0, 0), facing |-> "right",
             isGrounded |-> FALSE, isShielding |-> FALSE, isDodging |-> FALSE,
             isAttacking |-> FALSE, isJumping |-> FALSE, isRespawning |-> FALSE,
             eliminated |-> FALSE,
             health |-> 100, lives |-> IF E.stockLives = 0 THEN 3 ELSE E.stockLives,
             score |-> 0, knockouts |-> 0, deaths |-> 0, damage |-> 0, combo |-> 0,
             shieldFrames |-> 0, dodgeFrames |-> 0, attackFrames |-> 0,
             invulnerabilityFrames |-> 0, respawnFrames |-> 0,
             characterStats |-> blueyCharacters[ch].stats,
             abilities |-> blueyCharacters[ch].abilities,
             inputState |-> NoKeys, lastInputFrame |-> 0,
             statusEffects |-> NoEffects, blueyMeter |-> Px(100),
             knockoutDamage |-> -1, hit |-> NoHit, lastAttack |-> NoAttack]
    IN  [E EXCEPT !.order = IF socketId \in DOMAIN E.players THEN @ ELSE Append(@, socketId),
                  !.players = Merge(@, [s \in {socketId} |-> playerState])]

RECURSIVE initializePlayers(_, _, _)
initializePlayers(E, list, i) ==
    IF i > Len(list) THEN E
    ELSE initializePlayers(initializePlayer(E, list[i].socketId, list[i].character), list, i + 1)

\* config: players (a sequence of socketId, character), mapId, stockLives
initialize(config) ==
    LET elements == initializeMapElements(config.mapId)
        E0 == [NewGameState EXCEPT !.mapId = config.mapId, !.stockLives = config.stockLives]
        E1 == initializePlayers(E0, config.players, 1)
    IN  [E1 EXCEPT !.toys = elements.toys, !.collectibles = elements.collectibles,
                   !.initialized = TRUE]

\* applyInput(socketId, input): input.state overrides the keys it names
applyInput(E, socketId, input) ==
    IF socketId \notin DOMAIN E.players THEN E
    ELSE [E EXCEPT !.players[socketId].inputState = Merge(@, input.state),
                   !.players[socketId].lastInputFrame = input.frame]

getAttackDamage(player, attackType) ==
    LET base == CASE attackType = "basic" -> 12
                  [] attackType = "special" -> 20
                  [] attackType = "aerial" -> 15
                  [] OTHER -> 12
        boosted == "magic_boost" \in DOMAIN player.statusEffects
    IN  IF boosted THEN Round(base * player.characterStats.strength * 3, 14)
        ELSE Round(base * player.characterStats.strength, 7)

getAttackKnockback(attackType) ==
    CASE attackType = "special" -> Vec(5, 2)
      [] attackType = "aerial" -> Vec(2, 4)
      [] OTHER -> Vec(3, 1)

getAttackHitbox(player) ==
    LET direction == IF player.facing = "right" THEN 1 ELSE -1
    IN  [x |-> player.position.x + direction * Px(40), y |-> player.position.y - Px(20),
         width |-> Px(60), height |-> Px(80)]

checkHitboxCollision(position, hitbox) ==
    /\ position.x + Px(20) > hitbox.x
    /\ position.x - Px(20) < hitbox.x + hitbox.width
    /\ position.y + Px(40) > hitbox.y
    /\ position.y - Px(40) < hitbox.y + hitbox.height

checkPlatformCollision(player, platform) ==
    /\ player.position.x + Px(20) > platform.x
    /\ player.position.x - Px(20) < platform.x + platform.width
    /\ player.position.y + Px(40) > platform.y
    /\ player.position.y + Px(40) < platform.y + platform.height

checkProjectilePlatformCollision(projectile, platform) ==
    /\ projectile.position.x > platform.x
    /\ projectile.position.x < platform.x + platform.width
    /\ projectile.position.y + Px(10) > platform.y
    /\ projectile.position.y - Px(10) < platform.y + platform.height

\* the knockout test of applyDamage
\* a threshold that has to be exceeded
isKnockoutAbove(player) == player.damage > 100 \/ player.position.y > physics.stageHeight

isKnockout(player) == player.damage >= 100 \/ player.position.y > physics.stageHeight

\* a knockout that counts the death and keeps the life
knockoutPlayerKeepingLives(E, target, attackerId) ==
    LET E1 == [E EXCEPT !.players[target].deaths = @ + 1,
                        !.players[target].knockoutDamage = E.players[target].damage,
                        !.players[target].damage = 0]
        E2 == IF attackerId \in DOMAIN E1.players
              THEN [E1 EXCEPT !.players[attackerId].knockouts = @ + 1,
                              !.players[attackerId].score = @ + 100,
                              !.players[attackerId].combo = @ + 1]
              ELSE E1
    IN  IF E2.players[target].lives <= 0
        THEN [E2 EXCEPT !.players[target].eliminated = TRUE]
        ELSE [E2 EXCEPT !.players[target].isRespawning = TRUE,
                        !.players[target].respawnFrames = mechanics.respawnTime]

knockoutPlayer(E, target, attackerId) ==
    LET E1 == [E EXCEPT !.players[target].lives = @ - 1,
                        !.players[target].deaths = @ + 1,
                        !.players[target].knockoutDamage = E.players[target].damage,
                        !.players[target].damage = 0]
        E2 == IF attackerId \in DOMAIN E1.players
              THEN [E1 EXCEPT !.players[attackerId].knockouts = @ + 1,
                              !.players[attackerId].score = @ + 100,
                              !.players[attackerId].combo = @ + 1]
              ELSE E1
    IN  IF E2.players[target].lives <= 0
        THEN [E2 EXCEPT !.players[target].eliminated = TRUE]
        ELSE [E2 EXCEPT !.players[target].isRespawning = TRUE,
                        !.players[target].respawnFrames = mechanics.respawnTime]

\* a hit whose damage is subtracted
applyDamageSubtracting(E, target, attackData) ==
    LET damage == E.players[target].damage - attackData.damage
        sign == IF attackData.facing = "right" THEN 1 ELSE -1
        E1 == [E EXCEPT !.players[target].damage = damage,
                        !.players[target].velocity.x = @ + attackData.knockback.x * (damage + 100) * sign,
                        !.players[target].velocity.y = @ - attackData.knockback.y * (damage + 100),
                        !.players[target].invulnerabilityFrames = mechanics.invulnerabilityFrames,
                        !.players[target].hit =
                            [playerId |-> attackData.playerId, knockback |-> attackData.knockback,
                             invulnerabilityFrames |-> E.players[target].invulnerabilityFrames,
                             isRespawning |-> E.players[target].isRespawning]]
    IN  IF isKnockout(E1.players[target])
        THEN knockoutPlayer(E1, target, attackData.playerId)
        ELSE E1

\* attackData: playerId, damage, knockback (pixels), facing
applyDamage(E, target, attackData) ==
    LET damage == E.players[target].damage + attackData.damage
        sign == IF attackData.facing = "right" THEN 1 ELSE -1
        E1 == [E EXCEPT !.players[target].damage = damage,
                        !.players[target].velocity.x = @ + attackData.knockback.x * (damage + 100) * sign,
                        !.players[target].velocity.y = @ - attackData.knockback.y * (damage + 100),
                        !.players[target].invulnerabilityFrames = mechanics.invulnerabilityFrames,
                        !.players[target].hit =
                            [playerId |-> attackData.playerId, knockback |-> attackData.knockback,
                             invulnerabilityFrames |-> E.players[target].invulnerabilityFrames,
                             isRespawning |-> E.players[target].isRespawning]]
    IN  IF isKnockout(E1.players[target])
        THEN knockoutPlayer(E1, target, attackData.playerId)
        ELSE E1

\* a hit test that lets invulnerable and respawning players through
canBeHitAlways(player, socketId, attackerId) == socketId # attackerId

\* whether checkAttackHits tests this player against an attack at all
canBeHit(player, socketId, attackerId) ==
    /\ socketId # attackerId
    /\ player.invulnerabilityFrames <= 0
    /\ ~player.isRespawning

RECURSIVE checkAttackHits(_, _, _, _)
checkAttackHits(E, attackData, hitbox, i) ==
    IF i > Len(E.order) THEN E
    ELSE LET s == E.order[i]
             hit == /\ canBeHit(E.players[s], s, attackData.playerId)
                    /\ checkHitboxCollision(E.players[s].position, hitbox)
         IN  checkAttackHits(IF hit THEN applyDamage(E, s, attackData) ELSE E,
                             attackData, hitbox, i + 1)

executeAttack(E, s, attackType) ==
    LET player == E.players[s]
        attackData == [playerId |-> s, damage |-> getAttackDamage(player, attackType),
                       knockback |-> getAttackKnockback(attackType), facing |-> player.facing]
        E1 == [E EXCEPT !.players[s].attackFrames = mechanics.attackCooldown,
                        !.players[s].lastAttack =
                            [type |-> attackType, frame |-> E.frame, previous |-> @.frame]]
    IN  checkAttackHits(E1, attackData, getAttackHitbox(player), 1)

\* config.lifetime || 300
lifetimeOf(config) == IF config.lifetime = 0 THEN 300 ELSE config.lifetime

createProjectile(E, config) ==
    [E EXCEPT !.created = @ + 1,
              !.entities = Append(@,
        [id |-> E.created + 1,
         type |-> config.type, position |-> config.position, velocity |-> config.velocity,
         damage |-> config.damage, owner |-> config.owner, bounces |-> config.bounces,
         lifetime |-> lifetimeOf(config),
         frame |-> E.frame,
         configured |-> config.bounces, collisions |-> 0, configuredLifetime |-> lifetimeOf(config)])]

\* cos(angle) * 8 and sin(angle) * 8 - 2 for angle = (i - 1) * 0.5, plus pi when facing left
keepyUppyVelocity(i, facing) ==
    LET right == <<Vec(702, -584), Vec(800, -200), Vec(702, 184)>>
        left  == <<Vec(-702, 184), Vec(-800, -200), Vec(-702, -584)>>
    IN  IF facing = "right" THEN right[i + 1] ELSE left[i + 1]

RECURSIVE activateKeepyUppy(_, _, _)
activateKeepyUppy(E, s, i) ==
    IF i >= 3 THEN E
    ELSE activateKeepyUppy(
            createProjectile(E, [type |-> "keepy_uppy_ball", position |-> E.players[s].position,
                                 velocity |-> keepyUppyVelocity(i, E.players[s].facing),
                                 damage |-> 15, bounces |-> 3, lifetime |-> 0, owner |-> s]),
            s, i + 1)

activateShadowlands(E, s) ==
    [E EXCEPT !.players[s].statusEffects = Merge(@, [k \in {"shadowlands"} |-> 180])]

activateDanceMode(E, s) ==
    LET P == E.players
        near(o) == o # s /\ ~Beyond(P[o].position, P[s].position, Px(150))
    IN  [E EXCEPT !.players = [o \in DOMAIN P |->
            IF near(o)
            THEN [P[o] EXCEPT !.statusEffects = Merge(@, [k \in {"stunned"} |-> 120])]
            ELSE P[o]]]

activateMagicAsparagus(E, s) ==
    [E EXCEPT !.players[s].health = Min(100, @ + 30),
              !.players[s].statusEffects = Merge(@, [k \in {"magic_boost"} |-> 300])]

executeSpecialAttack(E, s) ==
    LET ability == E.players[s].abilities[1]
        E1 == [E EXCEPT !.players[s].blueyMeter = @ - Px(25)]
    IN  CASE ability = "keepy-uppy" -> activateKeepyUppy(E1, s, 0)
          [] ability = "shadowlands" -> activateShadowlands(E1, s)
          [] ability = "dance-mode" -> activateDanceMode(E1, s)
          [] ability = "magic-asparagus" -> activateMagicAsparagus(E1, s)
          [] OTHER -> executeAttack(E1, s, "special")

\* Math.floor(Math.random() * 4): the spawn slots respawnPlayer draws from
RespawnSlots == 0 .. 3

\* Math.random() * 2 * Math.PI, sampled at the four axis directions: (cos, sin) * range
teleportOffset(k, range) ==
    CASE k = 0 -> Vec(range, 0)
      [] k = 1 -> Vec(0, range)
      [] k = 2 -> Vec(-range, 0)
      [] OTHER -> Vec(0, -range)

TeleportAngles == 0 .. 3

\* the spawn point respawnPlayer puts the player at, given the drawn slot
respawnPoint(E, slot) == getSpawnPoint(E.mapId, slot)

respawnPlayer(E, s, slot) ==
    [E EXCEPT !.players[s].position = respawnPoint(E, slot),
              !.players[s].velocity = Vec(0, 0),
              !.players[s].isRespawning = FALSE,
              !.players[s].invulnerabilityFrames = 120]

\* an attack is executed whatever the attack counter says
offCooldownAlways(player) == TRUE

\* player.attackFrames === 0
offCooldown(player) == player.attackFrames = 0

applyPlayerInput(E, s) ==
    LET input == E.players[s].inputState
        stats == E.players[s].characterStats
        \* horizontal movement
        move(p) == IF input.left /\ ~input.right
                   THEN [p EXCEPT !.acceleration.x = -(stats.speed * 50), !.facing = "left"]
                   ELSE IF input.right /\ ~input.left
                   THEN [p EXCEPT !.acceleration.x = stats.speed * 50, !.facing = "right"]
                   ELSE [p EXCEPT !.acceleration.x = 0]
        \* jumping
        jump(p) == IF input.up /\ p.isGrounded /\ ~p.isJumping
                   THEN [p EXCEPT !.velocity.y = -(stats.agility * 120), !.isJumping = TRUE,
                                  !.isGrounded = FALSE]
                   ELSE p
        \* shielding
        shield(p) == IF input.shield /\ p.shieldFrames = 0 /\ ~p.isDodging
                     THEN [p EXCEPT !.shieldFrames = mechanics.shieldDuration]
                     ELSE p
        \* dodging
        dodge(p) == IF input.dodge /\ p.dodgeFrames = 0 /\ ~p.isShielding
                    THEN [p EXCEPT !.dodgeFrames = mechanics.dodgeDuration,
                                   !.invulnerabilityFrames = mechanics.dodgeDuration,
                                   !.velocity.x = @ + (IF p.facing = "right" THEN Px(8) ELSE -Px(8))]
                    ELSE p
        \* attacking
        attack(E4) == IF input.attack /\ offCooldown(E4.players[s])
                      THEN executeAttack(E4, s, "basic")
                      ELSE E4
        special(E5) == IF /\ input.special /\ offCooldown(E5.players[s])
                          /\ E5.players[s].blueyMeter >= Px(25)
                       THEN executeSpecialAttack(E5, s)
                       ELSE E5
    IN  special(attack([E EXCEPT !.players[s] = dodge(shield(jump(move(@))))]))

RECURSIVE landOnPlatforms(_, _, _, _)
landOnPlatforms(player, platforms, wasGrounded, i) ==
    IF i > Len(platforms) THEN player
    ELSE LET platform == platforms[i]
             lands == /\ checkPlatformCollision(player, platform)
                      /\ player.velocity.y > 0
                      /\ ~wasGrounded
             landed == [player EXCEPT !.position.y = platform.y,
                                      !.velocity.y = IF platform.type = "bouncy" THEN -Px(15) ELSE 0,
                                      !.isGrounded = TRUE,
                                      !.isJumping = FALSE]
         IN  landOnPlatforms(IF lands THEN landed ELSE player, platforms, wasGrounded, i + 1)

checkPlatformCollisions(player, mapId) ==
    landOnPlatforms([player EXCEPT !.isGrounded = FALSE], maps[loadMap(mapId)], player.isGrounded, 1)

applyPhysics(player, mapId) ==
    LET vx1 == player.velocity.x + player.acceleration.x
        vy1 == player.velocity.y + physics.gravity
        vx2 == IF player.isGrounded THEN Scale(vx1, physics.friction, 100)
               ELSE Scale(vx1, physics.airResistance, 100)
        vy2 == Min(vy1, physics.maxFallSpeed)
        x2  == player.position.x + vx2
        y2  == player.position.y + vy2
        \* stage boundaries
        x3  == IF x2 < 0 THEN 0 ELSE IF x2 > physics.stageWidth THEN physics.stageWidth ELSE x2
        vx3 == IF x2 < 0 \/ x2 > physics.stageWidth THEN 0 ELSE vx2
    IN  checkPlatformCollisions(
            [player EXCEPT !.velocity = Vec(vx3, vy2), !.position = Vec(x3, y2)], mapId)

updatePlayer(E, s, slot) ==
    LET dec(n) == IF n > 0 THEN n - 1 ELSE n
        count(p) == [p EXCEPT !.shieldFrames = dec(@), !.dodgeFrames = dec(@),
                              !.attackFrames = dec(@), !.invulnerabilityFrames = dec(@)]
        flag(c) == [c EXCEPT !.isShielding = c.shieldFrames > 0,
                             !.isDodging = c.dodgeFrames > 0,
                             !.isAttacking = c.attackFrames > 0]
        wait(E1) == IF E1.players[s].respawnFrames <= 0 THEN respawnPlayer(E1, s, slot) ELSE E1
        move(E1) == [E1 EXCEPT !.players[s] = applyPhysics(@, E.mapId)]
        regenerate(E2) ==
            [E2 EXCEPT !.players[s].blueyMeter = IF @ < Px(100) THEN Min(Px(100), @ + 20) ELSE @]
    IN  IF E.players[s].isRespawning
        THEN wait([E EXCEPT !.players[s].respawnFrames = @ - 1])
        ELSE regenerate(move(applyPlayerInput([E EXCEPT !.players[s] = flag(count(@))], s)))

\* a loop over the players that stops after the first one
updatePlayersFirstOnly(E, rnd, i) ==
    IF i > Len(E.order) THEN E
    ELSE updatePlayer(E, E.order[i], rnd.spawn[E.order[i]])

RECURSIVE updatePlayers(_, _, _)
updatePlayers(E, rnd, i) ==
    IF i > Len(E.order) THEN E
    ELSE updatePlayers(updatePlayer(E, E.order[i], rnd.spawn[E.order[i]]), rnd, i + 1)

updateToys(E) ==
    LET T == E.toys
    IN  [E EXCEPT !.toys = [i \in DOMAIN T |->
            IF ~T[i].active /\ T[i].respawnTime > 0
            THEN [T[i] EXCEPT !.respawnTime = T[i].respawnTime - 1,
                              !.active = (T[i].respawnTime - 1 <= 0)]
            ELSE T[i]]]

\* one (player, collectible) pair of updateCollectibles
collect(E, s, j) ==
    IF ~E.collectibles[j].collected /\ Within(E.players[s].position, E.collectibles[j].position, Px(50))
    THEN [E EXCEPT !.players[s].score = @ + E.collectibles[j].value,
                   !.collectibles[j].collected = TRUE]
    ELSE E

RECURSIVE updateCollectibles(_, _, _)
updateCollectibles(E, i, j) ==
    IF i > Len(E.order) THEN E
    ELSE IF j > Len(E.collectibles) THEN updateCollectibles(E, i + 1, 1)
    ELSE updateCollectibles(collect(E, E.order[i], j), i, j + 1)

applyToyEffect(E, s, toy, angle) ==
    LET effect == toy.effect
    IN  CASE effect.type = "bounce_boost" ->
                [E EXCEPT !.players[s].velocity.y = @ - Px(10)]
          [] effect.type = "health_restore" ->
                [E EXCEPT !.players[s].health = Min(100, @ + effect.amount)]
          [] effect.type = "flight" ->
                [E EXCEPT !.players[s].statusEffects = Merge(@, [k \in {"flight"} |-> effect.duration])]
          [] effect.type = "teleport" ->
                [E EXCEPT !.players[s].position.x = @ + teleportOffset(angle, effect.range).x,
                          !.players[s].position.y = @ + teleportOffset(angle, effect.range).y]
          [] OTHER -> E

\* one (player, toy) pair of checkCollisions
touchToy(E, s, j, angle) ==
    IF E.toys[j].active /\ Within(E.players[s].position, E.toys[j].position, Px(40))
    THEN [applyToyEffect(E, s, E.toys[j], angle) EXCEPT !.toys[j].active = FALSE,
                                                        !.toys[j].respawnTime = 300]
    ELSE E

RECURSIVE checkCollisions(_, _, _, _)
checkCollisions(E, rnd, i, j) ==
    IF i > Len(E.order) THEN E
    ELSE IF j > Len(E.toys) THEN checkCollisions(E, rnd, i + 1, 1)
    ELSE checkCollisions(touchToy(E, E.order[i], j, rnd.angle[E.order[i]]), rnd, i, j + 1)

\* whether updateEntities tests this player against a projectile at all
projectileCanHit(player, socketId, entity) ==
    /\ socketId # entity.owner
    /\ player.invulnerabilityFrames <= 0

\* the first player (in Map order, from i on) the projectile hits, or 0
RECURSIVE firstHit(_, _, _)
firstHit(E, entity, i) ==
    IF i > Len(E.order) THEN 0
    ELSE IF /\ projectileCanHit(E.players[E.order[i]], E.order[i], entity)
            /\ Within(E.players[E.order[i]].position, entity.position, Px(30))
         THEN i
         ELSE firstHit(E, entity, i + 1)

\* a projectile deleted at the collision that uses up its last bounce
bounceOrDestroyEarly(r) ==
    IF r.entity.bounces > 1
    THEN [r EXCEPT !.entity.velocity.y = -Scale(Abs(@), 8, 10),
                   !.entity.bounces = @ - 1]
    ELSE [r EXCEPT !.removed = TRUE]

\* one platform the projectile collides with: r.entity is the projectile, r.removed whether
\* this loop deleted it
bounceOrDestroy(r) ==
    IF r.entity.bounces > 0
    THEN [r EXCEPT !.entity.velocity.y = -Scale(Abs(@), 8, 10),
                   !.entity.bounces = @ - 1]
    ELSE [r EXCEPT !.removed = TRUE]

RECURSIVE bounceOffPlatforms(_, _, _)
bounceOffPlatforms(r, platforms, i) ==
    IF i > Len(platforms) \/ r.removed THEN r
    ELSE bounceOffPlatforms(
            IF checkProjectilePlatformCollision(r.entity, platforms[i])
            THEN [bounceOrDestroy(r) EXCEPT !.entity.collisions = @ + 1]  \* history: collisions so far
            ELSE r,
            platforms, i + 1)

\* a projectile that stays in the Map after it has hit a player
deletedByPlatform(h, r) == r.removed

\* whether the projectile left the Map in this turn: it hit player h (0: none), or the
\* platform loop deleted it
deleted(h, r) == h # 0 \/ r.removed

\* the entities of the Map in order; kept: those already visited and still in the Map
RECURSIVE updateEntities(_, _, _)
updateEntities(E, kept, i) ==
    IF i > Len(E.entities) THEN [E EXCEPT !.entities = kept]
    ELSE LET e0 == [E.entities[i] EXCEPT !.lifetime = @ - 1]
         IN  IF e0.lifetime <= 0 THEN updateEntities(E, kept, i + 1)
             ELSE LET moved == [e0 EXCEPT !.position = Vec(e0.position.x + e0.velocity.x,
                                                            e0.position.y + e0.velocity.y)]
                      e1 == IF moved.type \in {"keepy_uppy_ball"}
                            THEN [moved EXCEPT !.velocity.y = @ + physics.gravity \div 2]
                            ELSE moved
                      h  == firstHit(E, e1, 1)
                      E1 == IF h = 0 THEN E
                            ELSE applyDamage([E EXCEPT !.struck = Append(@, e1.id)], E.order[h],
                                    [playerId |-> e1.owner, damage |-> e1.damage,
                                     knockback |-> Vec(2, 1),
                                     facing |-> IF e1.velocity.x > 0 THEN "right" ELSE "left"])
                      r  == bounceOffPlatforms([entity |-> e1, removed |-> FALSE],
                                               maps[loadMap(E.mapId)], 1)
                      E2 == IF h = 0 /\ r.removed
                            THEN [E1 EXCEPT !.destroyed = Append(@, r.entity)]
                            ELSE E1
                  IN  updateEntities(E2,
                                     IF deleted(h, r) THEN kept ELSE Append(kept, r.entity),
                                     i + 1)

cleanup(E) ==
    LET P == E.players
        expire(fx) == [k \in {j \in DOMAIN fx : fx[j] - 1 > 0} |-> fx[k] - 1]
        C == E.collectibles
    IN  [E EXCEPT !.players = [s \in DOMAIN P |-> [P[s] EXCEPT !.statusEffects = expire(@)]],
                  !.collectibles = SelectSeq(C, LAMBDA c : ~c.collected)]

\* the draws of Math.random() one tick may make: a spawn slot and a teleport angle per player
NoRandom(E) == [spawn |-> [s \in DOMAIN E.players |-> 0], angle |-> [s \in DOMAIN E.players |-> 0]]

\* GameState.tick(frame)
tick(E, frame, rnd) ==
    LET E0 == [E EXCEPT !.frame = frame]
        E1 == updatePlayers(E0, rnd, 1)
        E2 == updateToys(E1)
        E3 == updateCollectibles(E2, 1, 1)
        E4 == checkCollisions(E3, rnd, 1, 1)
        E5 == updateEntities([E4 EXCEPT !.destroyed = <<>>], <<>>, 1)
    IN  cleanup(E5)

getPlayerStats(E) ==
    [s \in DOMAIN E.players |->
        [lives |-> E.players[s].lives, score |-> E.players[s].score,
         kos |-> E.players[s].knockouts, deaths |-> E.players[s].deaths,
         damage |-> E.players[s].damage, eliminated |-> E.players[s].eliminated]]

(***************************************************************************)
(* The room: class GameRoom                                                *)
(***************************************************************************)
BufferLength == 120

NoResults == [winner |-> "none", rankings |-> <<>>]

\* new GameRoom(id, host, config); id 0 stands for "no room yet"
NewGameRoom(id, host, config) ==
    [id |-> id, host |-> host, players |-> <<>>,
     maxPlayers |-> config.maxPlayers, gameMode |-> config.gameMode, mapId |-> config.mapId,
     settings |-> [stockLives |-> config.stockLives, timeLimit |-> 300],
     sessionId |-> 0, isGameActive |-> FALSE, gameStartTime |-> 0, gameEndTime |-> 0,
     gameResults |-> NoResults, replayId |-> 0,
     inputBuffer |-> [s \in {} |-> 0], confirmedFrame |-> 0, currentFrame |-> 0]

NoRoom ==
    NewGameRoom(0, "none", [maxPlayers |-> 0, gameMode |-> "classic", mapId |-> "backyard",
                            stockLives |-> 0])

\* the first character of the table no player of the room uses, or bluey
getAvailableCharacter(R, P) ==
    LET used == {P[R.players[i]].character : i \in DOMAIN R.players}
        free == {i \in DOMAIN CharacterOrder : CharacterOrder[i] \notin used}
    IN  IF free = {} THEN "bluey"
        ELSE CharacterOrder[CHOOSE i \in free : \A j \in free : i <= j]

\* an input buffer as addPlayer creates it: 120 empty slots (a slot that is absent is null)
EmptyBuffer == [i \in {} |-> 0]

\* the sort of calculateClassicResults / calculateStockResults (Array.prototype.sort is
\* stable): before[a][b] says that a must come before b
RECURSIVE insertSorted(_, _, _, _)
insertSorted(sorted, x, before, i) ==
    IF i > Len(sorted) THEN Append(sorted, x)
    ELSE IF before[x][sorted[i]]
         THEN SubSeq(sorted, 1, i - 1) \o <<x>> \o SubSeq(sorted, i, Len(sorted))
         ELSE insertSorted(sorted, x, before, i + 1)

RECURSIVE stableSort(_, _, _, _)
stableSort(list, before, sorted, i) ==
    IF i > Len(list) THEN sorted
    ELSE stableSort(list, before, insertSorted(sorted, list[i], before, 1), i + 1)

calculateClassicResults(order, stats) ==
    LET before == [a \in DOMAIN stats |-> [b \in DOMAIN stats |-> stats[a].score > stats[b].score]]
        sorted == stableSort(order, before, <<>>, 1)
    IN  [winner |-> IF sorted = <<>> THEN "none" ELSE sorted[1],
         rankings |-> [i \in DOMAIN sorted |->
            [rank |-> i, playerId |-> sorted[i], lives |-> -1, score |-> stats[sorted[i]].score,
             kos |-> stats[sorted[i]].kos, deaths |-> stats[sorted[i]].deaths]]]

\* a comparison that looks at the score alone
stockBeforeByScore(a, b) == a.score > b.score

\* first by lives remaining, then by score
stockBefore(a, b) ==
    IF a.lives # b.lives THEN a.lives > b.lives ELSE a.score > b.score

calculateStockResults(order, stats) ==
    LET before == [a \in DOMAIN stats |-> [b \in DOMAIN stats |-> stockBefore(stats[a], stats[b])]]
        sorted == stableSort(order, before, <<>>, 1)
    IN  [winner |-> IF sorted = <<>> THEN "none" ELSE sorted[1],
         rankings |-> [i \in DOMAIN sorted |->
            [rank |-> i, playerId |-> sorted[i], lives |-> stats[sorted[i]].lives,
             score |-> stats[sorted[i]].score,
             kos |-> stats[sorted[i]].kos, deaths |-> stats[sorted[i]].deaths]]]

calculateGameResults(R, E) ==
    IF R.gameMode = "stock" THEN calculateStockResults(E.order, getPlayerStats(E))
    ELSE calculateClassicResults(E.order, getPlayerStats(E))

\* Math.max(...scores) >= 10, on the empty list -Infinity
targetScoreReached(stats) == \E s \in DOMAIN stats : stats[s].score >= 10

checkWinConditions(R, E, t) ==
    LET stats == getPlayerStats(E)
    IN  CASE R.gameMode = "stock" ->
                Cardinality({s \in DOMAIN stats : stats[s].lives > 0}) <= 1
          [] R.gameMode = "time" ->
                t - R.gameStartTime >= R.settings.timeLimit * 1000
          [] R.gameMode = "classic" ->
                \/ Cardinality({s \in DOMAIN stats : ~stats[s].eliminated}) <= 1
                \/ targetScoreReached(stats)
          [] OTHER -> FALSE

\* a slot of every player is occupied, whatever the frame of the input it holds
hasAllInputsAnyFrame(R, frame) ==
    \A i \in DOMAIN R.players : (frame % BufferLength) \in DOMAIN R.inputBuffer[R.players[i]]

\* frame has an input of every player of the room
hasAllInputs(R, frame) ==
    \A i \in DOMAIN R.players :
        LET buffer == R.inputBuffer[R.players[i]]
            frameIndex == frame % BufferLength
        IN  frameIndex \in DOMAIN buffer /\ buffer[frameIndex].frame = frame

RECURSIVE latestConfirmed(_, _)
latestConfirmed(R, frame) ==
    IF frame + 1 <= R.currentFrame /\ hasAllInputs(R, frame + 1)
    THEN latestConfirmed(R, frame + 1)
    ELSE frame

\* an update that counts the confirmed frames again from the start of the session
updateConfirmedFrameFromStart(R) ==
    LET latest == latestConfirmed(R, 0)
    IN  IF latest # R.confirmedFrame
        THEN [room |-> [R EXCEPT !.confirmedFrame = latest], events |-> <<"game:confirmed-frame">>]
        ELSE [room |-> R, events |-> <<>>]

\* updateConfirmedFrame(): the room after it, and what it broadcasts
updateConfirmedFrame(R) ==
    LET latest == latestConfirmed(R, R.confirmedFrame)
    IN  IF latest > R.confirmedFrame
        THEN [room |-> [R EXCEPT !.confirmedFrame = latest], events |-> <<"game:confirmed-frame">>]
        ELSE [room |-> R, events |-> <<>>]

(***************************************************************************)
(* Anti-cheat: class AntiCheat.  A validator returns whether the action is *)
(* accepted (ok), the AntiCheat object after the call (ac), what was       *)
(* emitted to the player's socket (events) and whether the socket was told *)
(* to disconnect (disconnect).                                             *)
(***************************************************************************)
thresholds == [speedHack |-> 20, teleportDistance |-> 100, rapidInput |-> 30]

windows == [inputTracking |-> 1000, positionTracking |-> 100, stateValidation |-> 60000,
            violationDecay |-> 300000]

severityRules ==
    [rapid_input |-> [medium |-> 3, high |-> 8, critical |-> 15],
     speed_hack |-> [medium |-> 1, high |-> 3, critical |-> 5],
     teleport |-> [medium |-> 1, high |-> 2, critical |-> 3],
     health_manipulation |-> [medium |-> 1, high |-> 2, critical |-> 3],
     damage_hack |-> [medium |-> 1, high |-> 1, critical |-> 2],
     physics_violation |-> [medium |-> 5, high |-> 10, critical |-> 20],
     impossible_state |-> [medium |-> 3, high |-> 8, critical |-> 15],
     attack_spam |-> [medium |-> 5, high |-> 12, critical |-> 25]]

defaultRules == [medium |-> 5, high |-> 10, critical |-> 20]

NewAntiCheat(enabled) == [enabled |-> enabled, playerData |-> [s \in {} |-> 0], banList |-> {}]

initializePlayerTracking(player, t) ==
    [playerId |-> player.id, joinTime |-> t,
     inputHistory |-> <<>>, inputRate |-> 0, lastInputTime |-> 0,
     positionHistory |-> <<>>, lastPosition |-> Vec(0, 0), lastPositionTime |-> 0,
     velocityHistory |-> <<>>,
     stateHistory |-> <<>>, lastHealth |-> 100, lastLives |-> 3, lastScore |-> 0,
     violations |-> [v \in {} |-> 0], warningCount |-> 0, lastWarning |-> 0]

\* Array.prototype.filter
RECURSIVE filter(_, _, _)
filter(list, keep, i) ==
    IF i > Len(list) THEN <<>>
    ELSE (IF keep[i] THEN <<list[i]>> ELSE <<>>) \o filter(list, keep, i + 1)

getViolationSeverity(violationType, count) ==
    LET rules == IF violationType \in DOMAIN severityRules THEN severityRules[violationType]
                 ELSE defaultRules
    IN  IF count >= rules.critical THEN "critical"
        ELSE IF count >= rules.high THEN "high"
        ELSE IF count >= rules.medium THEN "medium"
        ELSE "low"

warnPlayer(ac, player, t) ==
    [ac |-> [ac EXCEPT !.playerData[player.socketId].warningCount = @ + 1,
                       !.playerData[player.socketId].lastWarning = t],
     events |-> IF player.socket THEN <<"anti-cheat:warning">> ELSE <<>>,
     disconnect |-> FALSE]

kickPlayer(ac, player) ==
    [ac |-> ac,
     events |-> IF player.socket THEN <<"anti-cheat:kick">> ELSE <<>>,
     disconnect |-> player.socket]

banPlayer(ac, player) ==
    [ac |-> [ac EXCEPT !.banList = @ \cup {player.id}],
     events |-> IF player.socket THEN <<"anti-cheat:ban">> ELSE <<>>,
     disconnect |-> player.socket]

handleViolation(ac, player, violationType, count, t) ==
    LET severity == getViolationSeverity(violationType, count)
    IN  CASE severity = "medium" -> warnPlayer(ac, player, t)
          [] severity = "high" -> kickPlayer(ac, player)
          [] severity = "critical" -> banPlayer(ac, player)
          [] OTHER -> [ac |-> ac, events |-> <<>>, disconnect |-> FALSE]

\* recordViolation, and the validator's "return false" that follows each call of it
recordViolation(ac, player, violationType, t) ==
    LET V == ac.playerData[player.socketId].violations
        old == IF violationType \in DOMAIN V THEN V[violationType]
               ELSE [count |-> 0, firstOccurrence |-> t, lastOccurrence |-> t]
        new == [old EXCEPT !.count = @ + 1, !.lastOccurrence = t]
        recorded == [ac EXCEPT !.playerData[player.socketId].violations =
                                   Merge(V, [v \in {violationType} |-> new])]
        r == handleViolation(recorded, player, violationType, new.count, t)
    IN  [ok |-> FALSE, ac |-> r.ac, events |-> r.events, disconnect |-> r.disconnect,
         violation |-> violationType]

accept(ac) == [ok |-> TRUE, ac |-> ac, events |-> <<>>, disconnect |-> FALSE, violation |-> "none"]

\* a field the message does not carry is undefined
Has(r, k) == k \in DOMAIN r

Truthy(r, k) == Has(r, k) /\ r[k] = TRUE

\* intensities are in hundredths; velocityHistory is never written by the program
validateInputCombination(input, playerData) ==
    /\ ~(/\ Truthy(input, "left") /\ Truthy(input, "right")
         /\ Has(input, "leftIntensity") /\ input.leftIntensity > 90
         /\ Has(input, "rightIntensity") /\ input.rightIntensity > 90)
    /\ ~(Truthy(input, "attack") /\ Truthy(input, "shield"))
    /\ ~(/\ Truthy(input, "dodge") /\ Truthy(input, "left")
         /\ Len(playerData.velocityHistory) > 0
         /\ playerData.velocityHistory[Len(playerData.velocityHistory)].x > 5)

\* the input history after the push and the filter
trackInput(inputHistory, t) ==
    LET pushed == Append(inputHistory, t)
    IN  filter(pushed, [i \in DOMAIN pushed |-> t - pushed[i] < windows.inputTracking], 1)

\* action.data absent: reading input.left throws, validateAction catches and allows
validateInput(ac, player, action, t) ==
    LET s == player.socketId
        history == trackInput(ac.playerData[s].inputHistory, t)
        tracked == [ac EXCEPT !.playerData[s].inputHistory = history,
                              !.playerData[s].inputRate = Len(history)]
        pd == tracked.playerData[s]
    IN  IF pd.inputRate > thresholds.rapidInput
        THEN recordViolation(tracked, player, "rapid_input", t)
        ELSE IF t - pd.lastInputTime < 16 /\ t - pd.lastInputTime < 5
        THEN recordViolation(tracked, player, "input_timing", t)
        ELSE IF ~Has(action, "data")
        THEN accept(tracked)
        ELSE IF ~validateInputCombination(action.data, pd)
        THEN recordViolation(tracked, player, "impossible_input", t)
        ELSE accept([tracked EXCEPT !.playerData[s].lastInputTime = t])

\* a position report is [position, velocity], or [position] when it has no velocity;
\* positions and velocities of reports are whole pixels; time in milliseconds
distanceSquared(a, b) == (a.x - b.x) * (a.x - b.x) + (a.y - b.y) * (a.y - b.y)

\* speed > maxSpeed, with speed = distance / (timeDiff / 1000), maxSpeed = speedHack * 60:
\* distance * 1000 > speedHack * 60 * timeDiff, both sides divided by 200 and squared
tooFast(distance2, timeDiff) ==
    distance2 * 5 * 5 >
        ((thresholds.speedHack * 3) \div 10) * ((thresholds.speedHack * 3) \div 10)
            * timeDiff * timeDiff

teleported(distance2, timeDiff) ==
    /\ distance2 > thresholds.teleportDistance * thresholds.teleportDistance
    /\ timeDiff < 100

\* gravity 0.8, deltaTime = timeDiff / 1000, 60 fps, tolerance 5: all times 1000
validatePhysics(lastEntry, currentEntry, timeDiff) ==
    IF ~Has(lastEntry, "velocity") \/ ~Has(currentEntry, "velocity") THEN TRUE
    ELSE LET expected1000 == lastEntry.velocity.y * 1000 + 48 * timeDiff
             actual1000 == currentEntry.velocity.y * 1000
         IN  IF Abs(actual1000 - expected1000) > 5000
             THEN lastEntry.position.y < 450 /\ currentEntry.position.y < 450
             ELSE TRUE

trackPosition(positionHistory, entry, t) ==
    LET pushed == Append(positionHistory, entry)
    IN  filter(pushed,
               [i \in DOMAIN pushed |-> t - pushed[i].timestamp < windows.positionTracking * 10],
               1)

\* action.data absent: reading action.data.position throws before anything is written
validatePosition(ac, player, action, t) ==
    IF ~Has(action, "data") THEN accept(ac)
    ELSE
    LET s == player.socketId
        position == action.data.position
        history == trackPosition(ac.playerData[s].positionHistory,
                                 Merge(action.data, [timestamp |-> t]), t)
        tracked == [ac EXCEPT !.playerData[s].positionHistory = history]
        accepted == accept([tracked EXCEPT !.playerData[s].lastPosition = position,
                                           !.playerData[s].lastPositionTime = t])
    IN  IF Len(history) < 2 THEN accepted
        ELSE
        LET lastEntry == history[Len(history) - 1]
            timeDiff == t - lastEntry.timestamp
            distance2 == distanceSquared(position, lastEntry.position)
        IN  IF timeDiff > 0
            THEN IF tooFast(distance2, timeDiff)
                 THEN recordViolation(tracked, player, "speed_hack", t)
                 ELSE IF teleported(distance2, timeDiff)
                 THEN recordViolation(tracked, player, "teleport", t)
                 ELSE IF /\ Has(action.data, "velocity")
                         /\ ~validatePhysics(lastEntry, action.data, timeDiff)
                 THEN recordViolation(tracked, player, "physics_violation", t)
                 ELSE accepted
            ELSE accepted

\* a state report carries any of health, lives, score, isGrounded, position, isAttacking
trackState(stateHistory, state, t) ==
    LET pushed == Append(stateHistory, [state |-> state, timestamp |-> t])
    IN  filter(pushed, [i \in DOMAIN pushed |-> t - pushed[i].timestamp < windows.stateValidation], 1)

\* action.data absent: an empty state is pushed, then reading state.health throws and
\* validateAction catches and allows
validateGameState(ac, player, action, t) ==
    IF ~Has(action, "data")
    THEN accept([ac EXCEPT !.playerData[player.socketId].stateHistory = trackState(@, NoEffects, t)])
    ELSE
    LET s == player.socketId
        state == action.data
        tracked == [ac EXCEPT !.playerData[s].stateHistory = trackState(@, state, t)]
        healthSeen == IF Has(state, "health")
                      THEN [tracked EXCEPT !.playerData[s].lastHealth = state.health]
                      ELSE tracked
        livesSeen == IF Has(state, "lives")
                     THEN [healthSeen EXCEPT !.playerData[s].lastLives = state.lives]
                     ELSE healthSeen
        scoreSeen == IF Has(state, "score")
                     THEN [livesSeen EXCEPT !.playerData[s].lastScore = state.score]
                     ELSE livesSeen
    IN  IF Has(state, "health") /\ state.health - tracked.playerData[s].lastHealth > 50
        THEN recordViolation(tracked, player, "health_manipulation", t)
        ELSE IF Has(state, "lives") /\ state.lives > healthSeen.playerData[s].lastLives + 1
        THEN recordViolation(healthSeen, player, "lives_manipulation", t)
        ELSE IF Has(state, "score") /\ state.score - livesSeen.playerData[s].lastScore > 1000
        THEN recordViolation(livesSeen, player, "score_manipulation", t)
        ELSE IF Truthy(state, "isGrounded") /\ Has(state, "position") /\ state.position.y < 100
        THEN recordViolation(scoreSeen, player, "impossible_state", t)
        ELSE accept(scoreSeen)

\* the time of the last state report that had isAttacking, or -1
lastAttackTime(stateHistory) ==
    LET attacks == {i \in DOMAIN stateHistory : Truthy(stateHistory[i].state, "isAttacking")}
    IN  IF attacks = {} THEN -1
        ELSE stateHistory[CHOOSE i \in attacks : \A j \in attacks : j <= i].timestamp

validateCombatAction(ac, player, action, t) ==
    IF ~Has(action, "data") THEN accept(ac)
    ELSE
    LET pd == ac.playerData[player.socketId]
        combatData == action.data
        lastAttack == lastAttackTime(pd.stateHistory)
    IN  IF Has(combatData, "type") /\ combatData.type = "attack" /\ lastAttack >= 0
           /\ t - lastAttack < 250
        THEN recordViolation(ac, player, "attack_spam", t)
        ELSE IF Has(combatData, "damage") /\ combatData.damage > 50
        THEN recordViolation(ac, player, "damage_hack", t)
        ELSE accept(ac)

validateGeneric(ac, player, action, t) ==
    LET H == ac.playerData[player.socketId].stateHistory
        recentActions == {i \in DOMAIN H : t - H[i].timestamp < 1000}
    IN  IF Cardinality(recentActions) > 100
        THEN recordViolation(ac, player, "action_flood", t)
        ELSE accept(ac)

\* the validators of these types read action.data.<field>: without a data field the read
\* throws a TypeError, which validateAction catches
raises(action) ==
    /\ Has(action, "type") /\ action.type \in {"input", "position", "state", "combat"}
    /\ ~Has(action, "data")

validateAction(ac, player, action, t) ==
    IF ~ac.enabled THEN accept(ac)
    ELSE
    LET s == player.socketId
        known == IF s \in DOMAIN ac.playerData THEN ac
                 ELSE [ac EXCEPT !.playerData =
                          Merge(@, [x \in {s} |-> initializePlayerTracking(player, t)])]
        type == IF Has(action, "type") THEN action.type ELSE "undefined"
    IN  CASE type = "input" -> validateInput(known, player, action, t)
          [] type = "position" -> validatePosition(known, player, action, t)
          [] type = "state" -> validateGameState(known, player, action, t)
          [] type = "combat" -> validateCombatAction(known, player, action, t)
          [] OTHER -> validateGeneric(known, player, action, t)

\* reportActivity(player, activity): the activity reported by the game:input handler has
\* type 'invalid_input' and no data field, so its data is the activity itself
reportActivity(ac, player, activity, t) ==
    validateAction(ac, player,
                   [type |-> IF Has(activity, "type") THEN activity.type ELSE "generic",
                    data |-> IF Has(activity, "data") THEN activity.data ELSE activity], t)

isPlayerBanned(ac, playerId) == playerId \in ac.banList

\* the violations of a player after the decay of cleanupOldData at time t
decay(V, t) ==
    LET expired(v) == t - V[v].lastOccurrence > windows.violationDecay
        kept == {v \in DOMAIN V : ~(expired(v) /\ Max(0, V[v].count - 1) = 0)}
    IN  [v \in kept |-> IF expired(v) THEN [V[v] EXCEPT !.count = Max(0, @ - 1)] ELSE V[v]]

\* cleanupOldData without the test of the decay window
cleanupOldDataEager(ac, t) ==
    [ac EXCEPT !.playerData =
        [s \in DOMAIN @ |-> [@[s] EXCEPT !.violations = decay(@, t + windows.violationDecay + 1)]]]

\* AntiCheat.cleanupOldData at time t
cleanupOldData(ac, t) ==
    [ac EXCEPT !.playerData =
        [s \in DOMAIN @ |->
            [@[s] EXCEPT
                !.inputHistory = filter(@, [i \in DOMAIN @ |-> t - @[i] < windows.inputTracking], 1),
                !.positionHistory =
                    filter(@, [i \in DOMAIN @ |->
                                   t - @[i].timestamp < windows.positionTracking * 10], 1),
                !.stateHistory =
                    filter(@, [i \in DOMAIN @ |-> t - @[i].timestamp < windows.stateValidation], 1),
                !.violations = decay(@, t)]]]

(***************************************************************************)
(* GameRoom operations.  R is the room, E its engine (room.gameState),     *)
(* P the players of the GameManager, t the value of Date.now().            *)
(***************************************************************************)
isFull(R) == Len(R.players) >= R.maxPlayers

isEmpty(R) == Len(R.players) = 0

isActive(R) == R.isGameActive \/ Len(R.players) > 0

canStart(R) == Len(R.players) >= 2 /\ ~R.isGameActive

\* addPlayer(player) where it does not throw: the room and the players after it
addPlayer(R, P, socketId) ==
    LET character == IF P[socketId].character = "none" THEN getAvailableCharacter(R, P)
                     ELSE P[socketId].character
    IN  [room |-> [R EXCEPT !.players = Append(@, socketId),
                            !.inputBuffer = Merge(@, [s \in {socketId} |-> EmptyBuffer])],
         players |-> [P EXCEPT ![socketId].character = character, ![socketId].roomId = R.id],
         events |-> <<"room:player-joined">>]

\* startGame() where it does not throw; id is the fresh session id
startGame(R, P, t, id) ==
    [room |-> [R EXCEPT !.sessionId = id, !.isGameActive = TRUE, !.gameStartTime = t,
                        !.currentFrame = 0, !.confirmedFrame = 0],
     gameState |-> initialize([players |-> [i \in DOMAIN R.players |->
                                               [socketId |-> R.players[i],
                                                character |-> P[R.players[i]].character]],
                               mapId |-> R.mapId, stockLives |-> R.settings.stockLives]),
     events |-> <<"game:start">>]

\* a start that checks neither the number of players nor a game in progress
startGameSessionUnchecked(R, E, P, t, id) == Merge(startGame(R, P, t, id), [ok |-> TRUE])

\* GameManager.startGameSession up to the recording: room.startGame() with its throws
\* (ok is FALSE where it throws, before anything is written)
startGameSession(R, E, P, t, id) ==
    IF R.isGameActive \/ Len(R.players) < 2
    THEN [ok |-> FALSE, room |-> R, gameState |-> E, events |-> <<>>]
    ELSE Merge(startGame(R, P, t, id), [ok |-> TRUE])

\* an end that does not look at isGameActive
endGameAgain(R, E, t) ==
    [ok |-> TRUE,
     room |-> [R EXCEPT !.isGameActive = FALSE, !.gameEndTime = t,
                        !.gameResults = calculateGameResults(R, E)],
     events |-> <<"game:end">>]

\* endGame() without results
endGame(R, E, t) ==
    IF ~R.isGameActive THEN [ok |-> FALSE, room |-> R, events |-> <<>>]
    ELSE [ok |-> TRUE,
          room |-> [R EXCEPT !.isGameActive = FALSE, !.gameEndTime = t,
                             !.gameResults = calculateGameResults(R, E)],
          events |-> <<"game:end">>]

\* validateGameInput (utils/validation) is not in the sources: the message says whether
\* it passes (input.wellFormed)
validateGameInput(input) == input.wellFormed

\* an input handler that does not look at isGameActive
processPlayerInputUnguarded(R, E, socketId, input, t) ==
    IF \/ ~validateGameInput(input)
       \/ socketId \notin DOMAIN R.inputBuffer
    THEN [ok |-> FALSE, room |-> R, gameState |-> E, events |-> <<>>]
    ELSE LET stored(frameIndex) ==
                 [R EXCEPT !.inputBuffer[socketId] =
                               Merge(@, [i \in {frameIndex} |->
                                            [frame |-> input.frame, state |-> input.state,
                                             timestamp |-> t]]),
                           !.currentFrame = Max(@, input.frame)]
             done(confirmed) ==
                 [ok |-> TRUE, room |-> confirmed.room,
                  gameState |-> applyInput(E, socketId, input),
                  events |-> confirmed.events \o <<"game:input">>]
         IN  done(updateConfirmedFrame(stored(input.frame % BufferLength)))

processPlayerInput(R, E, socketId, input, t) ==
    IF \/ ~R.isGameActive
       \/ ~validateGameInput(input)
       \/ socketId \notin DOMAIN R.inputBuffer
    THEN [ok |-> FALSE, room |-> R, gameState |-> E, events |-> <<>>]
    ELSE LET frameIndex == input.frame % BufferLength
             stored == [R EXCEPT !.inputBuffer[socketId] =
                           Merge(@, [i \in {frameIndex} |->
                                        [frame |-> input.frame, state |-> input.state,
                                         timestamp |-> t]]),
                                 !.currentFrame = Max(@, input.frame)]
             confirmed == updateConfirmedFrame(stored)
         IN  [ok |-> TRUE, room |-> confirmed.room,
              gameState |-> applyInput(E, socketId, input),
              events |-> confirmed.events \o <<"game:input">>]

\* a lockstep tick, which waits until every player's input of the current frame is confirmed
roomTickLockstep(R, E, t, rnd) ==
    IF ~R.isGameActive \/ R.confirmedFrame < R.currentFrame
    THEN [room |-> R, gameState |-> E, events |-> <<>>]
    ELSE [room |-> [R EXCEPT !.currentFrame = @ + 1],
          gameState |-> tick(E, R.currentFrame + 1, rnd), events |-> <<>>]

\* tick(): rnd is what Math.random() returns to the engine during this tick
roomTick(R, E, t, rnd) ==
    LET finish(advanced, engine) ==
            IF checkWinConditions(advanced, engine, t)
            THEN [room |-> endGame(advanced, engine, t).room, gameState |-> engine,
                  events |-> <<"game:end">>]
            ELSE [room |-> advanced, gameState |-> engine,
                  events |-> IF advanced.currentFrame % 3 = 0 THEN <<"game:state-update">>
                             ELSE <<>>]
    IN  IF ~R.isGameActive THEN [room |-> R, gameState |-> E, events |-> <<>>]
        ELSE finish([R EXCEPT !.currentFrame = @ + 1], tick(E, R.currentFrame + 1, rnd))

(***************************************************************************)
(* SocketHandler: rate limiting                                            *)
(***************************************************************************)
rateLimitConfig == [windowMs |-> 1000, maxRequests |-> 30, blockDuration |-> 5000]

NewRateLimit == [requests |-> <<>>, blockedUntil |-> 0]

\* a limit that lets the request pass which reaches maxRequests
overLimitExceeded(requests) == Len(requests) > rateLimitConfig.maxRequests

overLimit(requests) == Len(requests) >= rateLimitConfig.maxRequests

\* checkRateLimit(socketId): whether the packet passes, and the socket's limit after it
checkRateLimit(limits, socketId, t) ==
    IF socketId \notin DOMAIN limits THEN [ok |-> TRUE, limits |-> limits]
    ELSE LET limit == limits[socketId]
             recent == filter(limit.requests,
                              [i \in DOMAIN limit.requests |->
                                  t - limit.requests[i] < rateLimitConfig.windowMs], 1)
         IN  IF t < limit.blockedUntil THEN [ok |-> FALSE, limits |-> limits]
             ELSE IF overLimit(recent)
             THEN [ok |-> FALSE,
                   limits |-> [limits EXCEPT ![socketId] =
                                 [requests |-> recent,
                                  blockedUntil |-> t + rateLimitConfig.blockDuration]]]
             ELSE [ok |-> TRUE,
                   limits |-> [limits EXCEPT ![socketId] =
                                 [requests |-> Append(recent, t),
                                  blockedUntil |-> limit.blockedUntil]]]

(***************************************************************************)
(* ReplaySystem: the recordings in progress.  A replay id is a fresh uuid; *)
(* the model numbers the recordings as it numbers the sessions.            *)
(***************************************************************************)
NoRecordings == [id \in {} |-> 0]

\* startRecording(gameRoom), which returns replayId
startRecording(recordings, R, replayId) ==
    Merge(recordings, [id \in {replayId} |-> [roomId |-> R.id, sessionId |-> R.sessionId]])

\* stopRecording(replayId), up to its first await: the recording is no longer active
stopRecording(recordings, replayId) ==
    IF replayId \notin DOMAIN recordings THEN recordings ELSE Without(recordings, replayId)

\* a recording that holds no frames.  frames are the recorded frames: gameState is NullState (null)
\* or the compressed game state, whose players are the positions pos of its players, in
\* order.  The history field recorded keeps the frames as they were recorded
NullState == [null |-> TRUE, players |-> <<>>]

NoReplay == [frames |-> <<>>, compressed |-> FALSE, recorded |-> <<>>]

\* the inner loop of compressReplay and decompressReplay on frame current, given the frame
\* before it as it is in the recording now: sign is -1 to store deltas, 1 to restore
deltaFrame(current, previous, sign) ==
    IF current.gameState.null \/ previous.gameState.null THEN current
    ELSE [current EXCEPT !.gameState.players =
            [j \in DOMAIN @ |->
                IF j \in DOMAIN previous.gameState.players
                THEN Vec(@[j].x + sign * previous.gameState.players[j].x,
                         @[j].y + sign * previous.gameState.players[j].y)
                ELSE @[j]]]

\* the outer loop, from frame i on: the frames are changed in place, in ascending order
RECURSIVE deltaFrames(_, _, _)
deltaFrames(frames, sign, i) ==
    IF i > Len(frames) THEN frames
    ELSE deltaFrames([frames EXCEPT ![i] = deltaFrame(@, frames[i - 1], sign)], sign, i + 1)

\* compressReplay(recording); size and compressionRatio are not modelled
compressReplay(recording) ==
    [recording EXCEPT !.frames = deltaFrames(@, -1, 2), !.compressed = TRUE]

\* decompressReplay(recording)
decompressReplay(recording) ==
    IF ~recording.compressed THEN recording
    ELSE [recording EXCEPT !.frames = deltaFrames(@, 1, 2), !.compressed = FALSE]

(***************************************************************************)
(* GameManager and the socket handlers.  One room is modelled: room is     *)
(* NoRoom until a player creates it and after it is deleted.               *)
(***************************************************************************)
Sockets == {"a", "b"}

\* new Player(socketId, data): ids are unique per player; the socket is set by the handler
NewPlayer(socketId, character) ==
    [id |-> socketId, socketId |-> socketId, character |-> character, roomId |-> 0,
     socket |-> TRUE]

NoGameInput == [k \in {} |-> 0]

Step(op, socketId, verdict) == [op |-> op, socketId |-> socketId, verdict |-> verdict]

\* the handler of game:input.  validateSocketInput (utils/validation) is not in the
\* sources: the message says whether it passes (data.socketOk)
validateSocketInput(data) == data.socketOk

validatePlayerAction(ac, P, socketId, action, t) ==
    IF socketId \notin DOMAIN P
    THEN [ok |-> FALSE, ac |-> ac, events |-> <<>>, disconnect |-> FALSE, violation |-> "none"]
    ELSE validateAction(ac, P[socketId], action, t)

reportSuspiciousActivity(ac, P, socketId, activity, t) ==
    IF socketId \notin DOMAIN P THEN accept(ac)
    ELSE reportActivity(ac, P[socketId], activity, t)

\* a handler that reports the action and forwards it all the same
gameInputForwarding(R, E, ac, P, socketId, data, t) ==
    LET same == [room |-> R, gameState |-> E, ac |-> ac, events |-> <<>>, disconnect |-> FALSE]
        forward(v, r) ==
            [room |-> r.room, gameState |-> r.gameState, ac |-> v.ac,
             events |-> v.events \o r.events, disconnect |-> v.disconnect,
             verdict |-> IF ~v.ok THEN "rejected" ELSE IF r.ok THEN "applied" ELSE "dropped"]
    IN  IF ~validateSocketInput(data) THEN Merge(same, [verdict |-> "invalid"])
        ELSE IF P[socketId].roomId = 0 THEN Merge(same, [verdict |-> "no room"])
        ELSE IF R.id # P[socketId].roomId \/ ~R.isGameActive
        THEN Merge(same, [verdict |-> "inactive"])
        ELSE forward(validatePlayerAction(ac, P, socketId, data, t),
                     processPlayerInput(R, E, socketId, data, t))

\* what the handler does with a message of an authenticated socket: the verdict, and the
\* room, engine and anti-cheat after it
gameInput(R, E, ac, P, socketId, data, t) ==
    LET same == [room |-> R, gameState |-> E, ac |-> ac, events |-> <<>>, disconnect |-> FALSE]
        reject(v, r) ==
            [room |-> R, gameState |-> E, ac |-> r.ac, events |-> v.events \o r.events,
             disconnect |-> v.disconnect \/ r.disconnect, verdict |-> "rejected"]
        forward(v, r) ==
            [room |-> r.room, gameState |-> r.gameState, ac |-> v.ac,
             events |-> v.events \o r.events, disconnect |-> v.disconnect,
             verdict |-> IF r.ok THEN "applied" ELSE "dropped"]
        handle(v) ==
            IF ~v.ok
            THEN reject(v, reportSuspiciousActivity(v.ac, P, socketId,
                              [type |-> "invalid_input", input |-> data, timestamp |-> t], t))
            ELSE forward(v, processPlayerInput(R, E, socketId, data, t))
    IN  IF ~validateSocketInput(data) THEN Merge(same, [verdict |-> "invalid"])
        ELSE IF P[socketId].roomId = 0 THEN Merge(same, [verdict |-> "no room"])
        ELSE IF R.id # P[socketId].roomId \/ ~R.isGameActive
        THEN Merge(same, [verdict |-> "inactive"])
        ELSE handle(validatePlayerAction(ac, P, socketId, data, t))

\* removePlayer without its inputBuffer.delete
removePlayerKeepingBuffer(R, socketId) ==
    IF socketId \notin Range(R.players) THEN [room |-> R, events |-> <<>>]
    ELSE LET rest == SelectSeq(R.players, LAMBDA x : x # socketId)
         IN  [room |-> [R EXCEPT !.players = rest,
                                 !.host = IF @ = socketId /\ Len(rest) > 0 THEN rest[1] ELSE @],
              events |-> <<"room:player-left">>]

\* GameRoom.removePlayer
removePlayer(R, socketId) ==
    IF socketId \notin Range(R.players) THEN [room |-> R, events |-> <<>>]
    ELSE LET rest == SelectSeq(R.players, LAMBDA x : x # socketId)
         IN  [room |-> [R EXCEPT !.players = rest,
                                 !.inputBuffer = Without(@, socketId),
                                 !.host = IF @ = socketId /\ Len(rest) > 0 THEN rest[1] ELSE @],
              events |-> <<"room:player-left">>]

\* GameManager.leaveRoom, with deleteRoom when the room is left empty
leaveRoom(R, P, socketId) ==
    IF socketId \notin DOMAIN P \/ R.id = 0 \/ R.id # P[socketId].roomId
    THEN [room |-> R, players |-> P, events |-> <<>>, deleted |-> FALSE]
    ELSE LET left(r) ==
                 [room |-> IF isEmpty(r.room) THEN NoRoom ELSE r.room,
                  players |-> [P EXCEPT ![socketId].roomId = 0],
                  events |-> r.events, deleted |-> isEmpty(r.room)]
         IN  left(removePlayer(R, socketId))

(***************************************************************************)
(* GameManager: the registry of rooms and the matchmaking queue            *)
(* (part_005). rooms is a Map room id -> GameRoom and matchmaking a Map    *)
(* socket id -> entry, kept here in insertion order. uuidv4() is the next  *)
(* value of the counter created.                                           *)
(***************************************************************************)
maxPlayersPerRoom == 8

NoManager == [rooms |-> [id \in {} |-> 0], matchmaking |-> <<>>, created |-> 0]

\* the options createRoom builds ({defaults, ...roomConfig}) as the GameRoom constructor
\* reads them (config.maxPlayers || 4, ...)
roomOptions(roomConfig) ==
    LET given == IF Has(roomConfig, "maxPlayers") THEN roomConfig.maxPlayers
                 ELSE Min(4, maxPlayersPerRoom)
    IN  [maxPlayers |-> IF given = 0 THEN 4 ELSE given,
         gameMode |-> IF Has(roomConfig, "gameMode") THEN roomConfig.gameMode ELSE "classic",
         mapId |-> IF Has(roomConfig, "mapId") THEN roomConfig.mapId ELSE "backyard",
         stockLives |-> 3]

\* GameManager.joinRoom(socketId, roomId); ok is false where it throws (room.addPlayer
\* throws before it changes anything)
joinRoom(M, P, socketId, roomId) ==
    IF \/ socketId \notin DOMAIN P
       \/ roomId \notin DOMAIN M.rooms
    THEN [ok |-> FALSE, manager |-> M, players |-> P, events |-> <<>>]
    ELSE IF \/ isFull(M.rooms[roomId])
            \/ P[socketId].roomId # 0
            \/ M.rooms[roomId].isGameActive
    THEN [ok |-> FALSE, manager |-> M, players |-> P, events |-> <<>>]
    ELSE LET r == addPlayer(M.rooms[roomId], P, socketId)
         IN  [ok |-> TRUE, manager |-> [M EXCEPT !.rooms[roomId] = r.room],
              players |-> r.players, events |-> r.events]

\* GameManager.createRoom(hostSocketId, roomConfig): the room is put in rooms, then the
\* host joins it; ok is false where createRoom throws
createRoom(M, P, hostSocketId, roomConfig) ==
    IF hostSocketId \notin DOMAIN P
    THEN [ok |-> FALSE, manager |-> M, players |-> P, events |-> <<>>, roomId |-> 0]
    ELSE LET roomId == M.created + 1
             created == NewGameRoom(roomId, hostSocketId, roomOptions(roomConfig))
             registered == [M EXCEPT !.created = roomId,
                                     !.rooms = Merge(@, [id \in {roomId} |-> created])]
             r == joinRoom(registered, P, hostSocketId, roomId)
         IN  [ok |-> r.ok, manager |-> r.manager, players |-> r.players,
              events |-> r.events, roomId |-> roomId]

\* GameManager.leaveRoom(socketId, roomId), with deleteRoom when the room is left empty
leaveRegisteredRoom(M, P, socketId, roomId) ==
    IF socketId \notin DOMAIN P \/ roomId \notin DOMAIN M.rooms
    THEN [manager |-> M, players |-> P, events |-> <<>>, stopped |-> 0]
    ELSE LET r == removePlayer(M.rooms[roomId], socketId)
         IN  [manager |-> [M EXCEPT !.rooms = IF isEmpty(r.room) THEN Without(@, roomId)
                                              ELSE [@ EXCEPT ![roomId] = r.room]],
              players |-> [P EXCEPT ![socketId].roomId = 0],
              events |-> r.events,
              stopped |-> IF isEmpty(r.room) THEN r.room.replayId ELSE 0]

\* GameManager.removeFromMatchmaking(socketId)
removeFromMatchmaking(M, socketId) ==
    [M EXCEPT !.matchmaking = SelectSeq(@, LAMBDA e : e.socketId # socketId)]

\* GameManager.removePlayer(socketId)
removeRegisteredPlayer(M, P, socketId) ==
    IF socketId \notin DOMAIN P
    THEN [manager |-> M, players |-> P, events |-> <<>>, stopped |-> 0]
    ELSE LET left == IF P[socketId].roomId # 0
                     THEN leaveRegisteredRoom(M, P, socketId, P[socketId].roomId)
                     ELSE [manager |-> M, players |-> P, events |-> <<>>, stopped |-> 0]
         IN  [manager |-> removeFromMatchmaking(left.manager, socketId),
              players |-> Without(left.players, socketId),
              events |-> left.events, stopped |-> left.stopped]

\* the key tryMatchmaking groups the waiting players by: gameMode and mapId
preferenceKey(preferences) ==
    <<IF Has(preferences, "gameMode") THEN preferences.gameMode ELSE "classic",
      IF Has(preferences, "mapId") THEN preferences.mapId ELSE "backyard">>

\* the loop of createMatchFromGroup over players[i..]: joinRoom, then
\* matchmaking.delete; the first joinRoom that throws ends it in the catch
RECURSIVE joinMatched(_, _, _, _, _, _)
joinMatched(M, P, group, roomId, i, events) ==
    IF i > Len(group)
    THEN [ok |-> TRUE, manager |-> removeFromMatchmaking(M, group[1].socketId),
          players |-> P, events |-> events]
    ELSE LET r == joinRoom(M, P, group[i].socketId, roomId)
         IN  IF ~r.ok
             THEN [ok |-> FALSE, manager |-> r.manager, players |-> r.players,
                   events |-> events]
             ELSE joinMatched(removeFromMatchmaking(r.manager, group[i].socketId),
                              r.players, group, roomId, i + 1, events \o r.events)

\* createMatchFromGroup(players, preferenceKey): ok is false where the catch logged
createMatchFromGroup(M, P, group, key) ==
    LET r == createRoom(M, P, group[1].socketId,
                        [gameMode |-> key[1], mapId |-> key[2], isPrivate |-> FALSE])
    IN  IF ~r.ok
        THEN [ok |-> FALSE, manager |-> r.manager, players |-> r.players, events |-> r.events]
        ELSE joinMatched(r.manager, r.players, group, r.roomId, 2, r.events)

\* the second loop of tryMatchmaking, over the groups from keys[k] on; the groups were
\* made from the players that waited when tryMatchmaking began
RECURSIVE matchGroups(_, _, _, _, _, _)
matchGroups(M, P, waiting, keys, k, done) ==
    IF k > Len(keys)
    THEN [manager |-> M, players |-> P, events |-> done.events, failed |-> done.failed]
    ELSE LET group == SelectSeq(waiting, LAMBDA e : preferenceKey(e.preferences) = keys[k])
             matched(r) == matchGroups(r.manager, r.players, waiting, keys, k + 1,
                                       [events |-> done.events \o r.events,
                                        failed |-> done.failed \/ ~r.ok])
         IN  IF Len(group) >= 2
             THEN matched(createMatchFromGroup(
                              M, P, SubSeq(group, 1, Min(Len(group), maxPlayersPerRoom)),
                              keys[k]))
             ELSE matchGroups(M, P, waiting, keys, k + 1, done)

\* GameManager.tryMatchmaking(); failed says that a createMatchFromGroup ended in its catch
tryMatchmaking(M, P) ==
    LET waiting == M.matchmaking
        keyOf(i) == preferenceKey(waiting[i].preferences)
        first == SelectSeq([i \in 1..Len(waiting) |-> i],
                           LAMBDA i : \A j \in 1..(i - 1) : keyOf(j) # keyOf(i))
        keys == [n \in 1..Len(first) |-> keyOf(first[n])]
    IN  IF Len(waiting) < 2
        THEN [manager |-> M, players |-> P, events |-> <<>>, failed |-> FALSE]
        ELSE matchGroups(M, P, waiting, keys, 1, [events |-> <<>>, failed |-> FALSE])

\* GameManager.joinMatchmaking(socketId, preferences); ok is false where it throws
joinMatchmaking(M, P, socketId, preferences) ==
    IF socketId \notin DOMAIN P \/ P[socketId].roomId # 0
    THEN [ok |-> FALSE, manager |-> M, players |-> P, events |-> <<>>, failed |-> FALSE]
    ELSE LET entry == [socketId |-> socketId, preferences |-> preferences]
             waits == \E i \in DOMAIN M.matchmaking : M.matchmaking[i].socketId = socketId
             queued == IF waits
                       THEN [i \in DOMAIN M.matchmaking |->
                                IF M.matchmaking[i].socketId = socketId THEN entry
                                ELSE M.matchmaking[i]]
                       ELSE Append(M.matchmaking, entry)
             r == tryMatchmaking([M EXCEPT !.matchmaking = queued], P)
         IN  [ok |-> TRUE, manager |-> r.manager, players |-> r.players,
              events |-> r.events, failed |-> r.failed]

(***************************************************************************)
(* The server as a state machine                                           *)
(***************************************************************************)
MaxFrame == 3
MaxTime == 1020
MaxMsgs == 2
MaxRooms == 1

NoLog ==
    [msgs |-> 0, rooms |-> 0, sessions |-> 0,
     accepted |-> [s \in Sockets |-> <<>>], reports |-> [s \in Sockets |-> <<>>],
     received |-> [s \in Sockets |-> {}], caught |-> 0,
     attacks |-> [s \in Sockets |-> <<>>],
     replay |-> NoReplay,
     flood |-> [socketId |-> "none", pace |-> 0, typed |-> FALSE]]

Connected(s) == s \in DOMAIN rateLimits

\* Date.now() when the model starts, in milliseconds
StartTime == 1000

\* the rate-limit middleware stopped the packet
Limited(s, op) ==
    /\ emitted' = <<"error">>
    /\ last' = Step(op, s, "limited")
    /\ UNCHANGED <<room, gameState, replayState, players, antiCheat, now, log,
                   activeRecordings, manager>>

\* the authentication middleware stopped the packet
Unauthenticated(s, op) ==
    /\ emitted' = <<>>
    /\ last' = Step(op, s, "unauthenticated")
    /\ UNCHANGED <<room, gameState, replayState, players, antiCheat, now, log,
                   activeRecordings, manager>>

\* socket.disconnect(true) was called on the sockets of D: each is closing until its
\* disconnect handler has run
closing(P, D) == [s \in DOMAIN P |-> IF s \in D THEN [P[s] EXCEPT !.socket = FALSE] ELSE P[s]]

LobbyInit ==
    /\ room = NoRoom
    /\ gameState = NewGameState
    /\ replayState = NewGameState
    /\ players = [s \in {} |-> 0]
    /\ antiCheat = NewAntiCheat(TRUE)
    /\ rateLimits = [s \in Sockets |-> NewRateLimit]
    /\ now = StartTime
    /\ emitted = <<>>
    /\ last = Step("connect", "none", "none")
    /\ log = NoLog
    /\ activeRecordings = NoRecordings
    /\ manager = NoManager

\* auth:login / auth:guest
Login(s, character) ==
    /\ Connected(s) /\ s \notin DOMAIN players
    /\ LET rl == checkRateLimit(rateLimits, s, now)
       IN  /\ rateLimits' = rl.limits
           /\ IF ~rl.ok THEN Limited(s, "auth:login")
              ELSE /\ players' = Merge(players, [x \in {s} |-> NewPlayer(s, character)])
                   /\ emitted' = <<"auth:success">>
                   /\ last' = Step("auth:login", s, "ok")
                   /\ UNCHANGED <<room, gameState, replayState, antiCheat, now, log,
                                  activeRecordings, manager>>

\* room:create
CreateRoom(s, config) ==
    /\ Connected(s) /\ s \in DOMAIN players /\ log.rooms < MaxRooms /\ room.id = 0
    /\ LET rl == checkRateLimit(rateLimits, s, now)
       IN  /\ rateLimits' = rl.limits
           /\ IF ~rl.ok THEN Limited(s, "room:create")
              ELSE IF s \notin DOMAIN players THEN Unauthenticated(s, "room:create")
              ELSE IF players[s].roomId # 0
              THEN /\ emitted' = <<"error">>
                   /\ last' = Step("room:create", s, "error")
                   /\ UNCHANGED <<room, gameState, replayState, players, antiCheat, now, log,
                                  activeRecordings, manager>>
              ELSE LET r == addPlayer(NewGameRoom(log.rooms + 1, s, config), players, s)
                   IN  /\ room' = r.room
                       /\ players' = r.players
                       /\ gameState' = NewGameState
                       /\ emitted' = r.events \o <<"room:created">>
                       /\ last' = Step("room:create", s, "ok")
                       /\ log' = [log EXCEPT !.rooms = @ + 1]
                       /\ UNCHANGED <<replayState, antiCheat, now, activeRecordings, manager>>

\* room:join
JoinRoom(s) ==
    /\ Connected(s) /\ s \in DOMAIN players /\ room.id # 0 /\ players[s].roomId = 0
    /\ LET rl == checkRateLimit(rateLimits, s, now)
       IN  /\ rateLimits' = rl.limits
           /\ IF ~rl.ok THEN Limited(s, "room:join")
              ELSE IF s \notin DOMAIN players THEN Unauthenticated(s, "room:join")
              ELSE IF players[s].roomId # 0 \/ isFull(room) \/ room.isGameActive
              THEN /\ emitted' = <<"error">>
                   /\ last' = Step("room:join", s, "error")
                   /\ UNCHANGED <<room, gameState, replayState, players, antiCheat, now, log,
                                  activeRecordings, manager>>
              ELSE LET r == addPlayer(room, players, s)
                   IN  /\ room' = r.room
                       /\ players' = r.players
                       /\ emitted' = r.events \o <<"room:joined">>
                       /\ last' = Step("room:join", s, "ok")
                       /\ UNCHANGED <<gameState, replayState, antiCheat, now, log,
                                      activeRecordings, manager>>

\* the game:start handler has called startGameSession, with outcome r of room.startGame()
Starting(s, r) ==
    IF ~r.ok
    THEN /\ emitted' = <<"error">>
         /\ last' = Step("game:start", s, "error")
         /\ UNCHANGED <<room, gameState, replayState, players, antiCheat, now, log,
                        activeRecordings, manager>>
    ELSE /\ room' = [r.room EXCEPT !.replayId = r.room.sessionId]
         /\ activeRecordings' = startRecording(activeRecordings, r.room, r.room.sessionId)
         /\ gameState' = r.gameState
         /\ emitted' = r.events
         /\ last' = Step("game:start", s, "ok")
         /\ log' = [log EXCEPT !.sessions = @ + 1, !.received = [x \in Sockets |-> {}]]
         /\ UNCHANGED <<replayState, players, antiCheat, now, manager>>

\* game:start
StartGame(s) ==
    /\ Connected(s) /\ s \in DOMAIN players /\ players[s].roomId # 0
    /\ LET rl == checkRateLimit(rateLimits, s, now)
       IN  /\ rateLimits' = rl.limits
           /\ IF ~rl.ok THEN Limited(s, "game:start")
              ELSE IF s \notin DOMAIN players THEN Unauthenticated(s, "game:start")
              ELSE IF \/ players[s].roomId = 0 \/ room.id # players[s].roomId
                      \/ room.host # s \/ ~canStart(room)
              THEN /\ emitted' = <<"error">>
                   /\ last' = Step("game:start", s, "error")
                   /\ UNCHANGED <<room, gameState, replayState, players, antiCheat, now, log,
                                  activeRecordings, manager>>
              ELSE Starting(s, startGameSession(room, gameState, players, now,
                                                log.sessions + 1))

\* the messages a client sends as game:input in this model
Keys(on) == [k \in on |-> TRUE]

GameInputs ==
    {[type |-> "input", frame |-> 1, state |-> Keys(on), data |-> Keys(on),
      socketOk |-> TRUE, wellFormed |-> TRUE] : on \in {{"attack"}, {"attack", "shield"}}}
    \cup {[frame |-> 2, state |-> Keys({"right"}), socketOk |-> ok, wellFormed |-> ~ok] :
            ok \in BOOLEAN}

\* data is a combat action of type attack
attackSubmission(data) ==
    /\ Has(data, "type") /\ data.type = "combat" /\ Has(data, "data")
    /\ Has(data.data, "type") /\ data.data.type = "attack"

\* the log of the messages handled: their number, the times at which a socket's message
\* passed the rate limit and the validation, the position reports that passed, the
\* frames of the inputs of a socket that the room stored during the current session, and
\* the number of errors that validateAction caught (a message that passes the validation
\* of its type without a data field has raised one), and the times at which a socket's
\* attack submissions passed the validation
logged(L, s, data, verdict, t) ==
    LET passed == verdict \in {"applied", "dropped"}
        report == passed /\ Has(data, "type") /\ data.type = "position" /\ Has(data, "data")
    IN  [L EXCEPT !.msgs = @ + 1,
                  !.accepted[s] = IF passed THEN Append(@, t) ELSE @,
                  !.reports[s] = IF report
                                 THEN Append(@, [position |-> data.data.position, timestamp |-> t])
                                 ELSE @,
                  !.received[s] = IF verdict = "applied" /\ Has(data, "frame")
                                  THEN @ \cup {data.frame}
                                  ELSE @,
                  !.caught = IF passed /\ raises(data) THEN @ + 1 ELSE @,
                  !.attacks[s] = IF passed /\ attackSubmission(data) THEN Append(@, t) ELSE @]

\* the handler of game:input has run on data, with outcome r
Handled(s, data, r) ==
    /\ room' = r.room
    /\ gameState' = r.gameState
    /\ antiCheat' = r.ac
    /\ players' = closing(players, IF r.disconnect THEN {s} ELSE {})
    /\ emitted' = r.events
    /\ last' = Step("game:input", s, r.verdict)
    /\ log' = logged(log, s, data, r.verdict, now)
    /\ UNCHANGED <<replayState, activeRecordings, manager>>

\* game:input
Receive(s, data) ==
    /\ Connected(s) /\ s \in DOMAIN players /\ players[s].roomId # 0
    /\ LET rl == checkRateLimit(rateLimits, s, now)
       IN  /\ rateLimits' = rl.limits
           /\ IF ~rl.ok THEN Limited(s, "game:input")
              ELSE IF s \notin DOMAIN players THEN Unauthenticated(s, "game:input")
              ELSE /\ Handled(s, data, gameInput(room, gameState, antiCheat, players, s, data, now))
                   /\ UNCHANGED now

GameInput(s, data) == log.msgs < MaxMsgs /\ Receive(s, data)

\* the draws of Math.random() that can matter in the next tick of engine E
Oracles(E) ==
    LET respawns(s) == E.players[s].isRespawning /\ E.players[s].respawnFrames <= 1
        teleports == \E j \in DOMAIN E.toys : E.toys[j].active /\ E.toys[j].effect.type = "teleport"
        spawns == IF \E s \in DOMAIN E.players : respawns(s)
                  THEN {f \in [DOMAIN E.players -> RespawnSlots] :
                           \A s \in DOMAIN E.players : ~respawns(s) => f[s] = 0}
                  ELSE {NoRandom(E).spawn}
        angles == IF teleports THEN [DOMAIN E.players -> TeleportAngles] ELSE {NoRandom(E).angle}
    IN  [spawn : spawns, angle : angles]

\* the room has ticked, with outcome r
Ticked(r) ==
    /\ room' = r.room
    /\ gameState' = r.gameState
    /\ emitted' = r.events

\* one turn of the game loop: GameManager.tick
Tick ==
    /\ room.id # 0 /\ isActive(room) /\ room.currentFrame < MaxFrame
    /\ \E rnd \in Oracles(gameState) : Ticked(roomTick(room, gameState, now, rnd))
    /\ last' = Step("tick", "none", IF room.isGameActive THEN "ticked" ELSE "idle")
    /\ UNCHANGED <<replayState, players, antiCheat, rateLimits, now, log,
                   activeRecordings, manager>>

\* game:forfeit has run the room's tick, with outcome r.  The handler also marks the Player
\* object of the manager (player.gameState.lives, eliminated), which the engine never reads
Forfeited(s, r) ==
    /\ room' = r.room
    /\ gameState' = r.gameState
    /\ emitted' = <<"game:player-forfeit">> \o r.events
    /\ last' = Step("game:forfeit", s, "ok")
    /\ UNCHANGED <<replayState, players, antiCheat, now, log, activeRecordings, manager>>

\* game:forfeit
Forfeit(s) ==
    /\ Connected(s) /\ s \in DOMAIN players
    /\ LET rl == checkRateLimit(rateLimits, s, now)
       IN  /\ rateLimits' = rl.limits
           /\ IF ~rl.ok THEN Limited(s, "game:forfeit")
              ELSE IF s \notin DOMAIN players THEN Unauthenticated(s, "game:forfeit")
              ELSE IF \/ players[s].roomId = 0 \/ room.id # players[s].roomId
                      \/ ~room.isGameActive
              THEN /\ emitted' = <<"error">>
                   /\ last' = Step("game:forfeit", s, "error")
                   /\ UNCHANGED <<room, gameState, replayState, players, antiCheat, now, log,
                                  activeRecordings, manager>>
              ELSE \E rnd \in Oracles(gameState) :
                       Forfeited(s, roomTick(room, gameState, now, rnd))

\* GameManager.endGameSession(roomId) without results
EndGameSession ==
    /\ room.id # 0
    /\ LET ended(r) ==
               /\ room' = [r.room EXCEPT !.replayId = 0]
               /\ emitted' = r.events
       IN  ended(endGame(room, gameState, now))
    /\ activeRecordings' = IF room.replayId # 0
                           THEN stopRecording(activeRecordings, room.replayId)
                           ELSE activeRecordings
    /\ last' = Step("endGameSession", "none", IF room.isGameActive THEN "ended" ELSE "none")
    /\ UNCHANGED <<gameState, replayState, players, antiCheat, rateLimits, now, log, manager>>

\* time passes
ClockSteps == {17}

Elapse(d) ==
    /\ now' = now + d
    /\ emitted' = <<>>
    /\ last' = Step("clock", "none", "none")
    /\ UNCHANGED <<room, gameState, replayState, players, antiCheat, rateLimits, log,
                   activeRecordings, manager>>

ClockAdvance(d) ==
    /\ now + d <= MaxTime
    /\ Elapse(d)

\* the disconnect handler of socket s
Disconnect(s) ==
    /\ Connected(s)
    /\ rateLimits' = Without(rateLimits, s)
    /\ LET r == leaveRoom(room, players, s)
       IN  /\ room' = r.room
           /\ players' = Without(r.players, s)
           /\ emitted' = r.events
           /\ activeRecordings' = IF r.deleted /\ room.replayId # 0
                                  THEN stopRecording(activeRecordings, room.replayId)
                                  ELSE activeRecordings
    /\ last' = Step("disconnect", s, "none")
    /\ UNCHANGED <<gameState, replayState, antiCheat, now, log, manager>>

RoomConfigs ==
    {[maxPlayers |-> 4, gameMode |-> m, mapId |-> "backyard", stockLives |-> 3] :
        m \in {"classic", "stock"}}

\* the state in which the host has just started a session: both sockets logged in at time
\* t, the first created the room with config, the second joined, the first started the game
Lobby(config, character, t) ==
    LET create(P) == addPlayer(NewGameRoom(1, "a", config), P, "a")
        join(created) == addPlayer(created.room, created.players, "b")
        start(joined) == [room |-> startGame(joined.room, joined.players, t, 1),
                          players |-> joined.players]
        lobby(started) ==
            [room |-> [started.room.room EXCEPT !.replayId = 1], players |-> started.players,
             gameState |-> started.room.gameState,
             rateLimits |-> [s \in {"a", "b"} |->
                                [requests |-> IF s = "a" THEN <<t, t, t>> ELSE <<t, t>>,
                                 blockedUntil |-> 0]],
             log |-> [NoLog EXCEPT !.rooms = 1, !.sessions = 1],
             activeRecordings |-> startRecording(NoRecordings, started.room.room, 1)]
    IN  lobby(start(join(create([s \in {"a", "b"} |-> NewPlayer(s, character)]))))

\* the session of lobby L has just started
Started(L) ==
    /\ room = L.room
    /\ gameState = L.gameState
    /\ replayState = NewGameState
    /\ players = L.players
    /\ antiCheat = NewAntiCheat(TRUE)
    /\ rateLimits = L.rateLimits
    /\ now = StartTime
    /\ emitted = <<"game:start">>
    /\ last = Step("game:start", "a", "ok")
    /\ log = L.log
    /\ activeRecordings = L.activeRecordings
    /\ manager = NoManager

Init == \E config \in RoomConfigs : Started(Lobby(config, "none", StartTime))

\* a running session: messages, the game loop, the clock, disconnections
Next ==
    \/ \E s \in Sockets, data \in GameInputs : GameInput(s, data)
    \/ Tick
    \/ \E d \in ClockSteps : ClockAdvance(d)
    \/ \E s \in Sockets : Disconnect(s)

Spec == Init /\ [][Next]_vars

\* the game loop is a timer (setInterval): a turn that is due is never postponed for ever.
\* This is weak fairness of Tick, WF_vars(Tick), written out: TickEnabled is
\* ENABLED <<Tick>>_vars (Tick's guard, and the step is no stuttering step), and a step
\* labelled "tick" is a Tick step
TickEnabled ==
    /\ room.id # 0 /\ isActive(room) /\ room.currentFrame < MaxFrame
    /\ (room.isGameActive \/ last # Step("tick", "none", "idle"))

TickFair == []<>(~TickEnabled) \/ []<><<last'.op = "tick">>_vars

SpecFair == Init /\ [][Next]_vars /\ TickFair

\* the lobby: from the connection of the sockets to the first ticks of a session
LobbyNext ==
    \/ \E s \in Sockets : Login(s, "none")
    \/ \E s \in Sockets, config \in RoomConfigs : CreateRoom(s, config)
    \/ \E s \in Sockets : JoinRoom(s)
    \/ \E s \in Sockets : ~room.isGameActive /\ StartGame(s)
    \/ Tick

SpecLobby == LobbyInit /\ [][LobbyNext]_vars

(***************************************************************************)
(* A whole match: a stock session of two players played to its end.  The   *)
(* players hold their keys; a message changes what its sender holds.       *)
(***************************************************************************)
MatchMaxFrame == 2700
MatchMaxMsgs == 4
TickMs == 17

StockConfig == [maxPlayers |-> 4, gameMode |-> "stock", mapId |-> "backyard", stockLives |-> 3]

\* the message of a client that now holds exactly the keys of on
Held(on, frame) ==
    [type |-> "input", frame |-> frame, state |-> Merge(NoKeys, Keys(on)), data |-> Keys(on),
     socketOk |-> TRUE, wellFormed |-> TRUE]

\* the frames at which the clients of a match change their keys, and to what
MatchInputs ==
    [f \in {0, 1800, 2070} |-> IF f = 1800 THEN {"left"} ELSE {"left", "attack"}]

hasInput(R, s, frame) ==
    /\ s \in DOMAIN R.inputBuffer
    /\ (frame % BufferLength) \in DOMAIN R.inputBuffer[s]
    /\ R.inputBuffer[s][frame % BufferLength].frame = frame

MatchInit == Started(Lobby(StockConfig, "bluey", StartTime))

MatchInput(s) ==
    /\ room.isGameActive /\ room.currentFrame \in DOMAIN MatchInputs
    /\ log.msgs < MatchMaxMsgs
    /\ ~hasInput(room, s, room.currentFrame)
    /\ Receive(s, Held(MatchInputs[room.currentFrame], room.currentFrame))

\* a turn of the game loop, one tick interval after the last
MatchTick ==
    /\ room.isGameActive /\ room.currentFrame < MatchMaxFrame
    /\ \E rnd \in Oracles(gameState) : Ticked(roomTick(room, gameState, now + TickMs, rnd))
    /\ now' = now + TickMs
    /\ last' = Step("tick", "none", "ticked")
    /\ UNCHANGED <<replayState, players, antiCheat, rateLimits, log, activeRecordings, manager>>

MatchNext ==
    \/ \E s \in Sockets : MatchInput(s)
    \/ MatchTick

SpecMatch == MatchInit /\ [][MatchNext]_vars

(***************************************************************************)
(* Projectiles: the first frames of a session in which players hold the    *)
(* special key (keepy-uppy balls for the first player)                     *)
(***************************************************************************)
BallMaxFrame == 130

BallInputs == {{"special"}, {"special", "right"}, {"left"}}

BallInit == Started(Lobby(StockConfig, "none", StartTime))

BallInput(s, on) ==
    /\ room.isGameActive /\ room.currentFrame = 0
    /\ ~hasInput(room, s, 0)
    /\ Receive(s, Held(on, 0))

BallTick == room.currentFrame < BallMaxFrame /\ MatchTick

BallNext ==
    \/ \E s \in Sockets, on \in BallInputs : BallInput(s, on)
    \/ BallTick

SpecBall == BallInit /\ [][BallNext]_vars

(***************************************************************************)
(* Replay: two fresh engines, gameState and replayState, initialized alike *)
(* and fed the same inputs and ticks; each draws its own random numbers    *)
(***************************************************************************)
ReplayMaxFrame == 800

ReplayInputs == {{"left", "attack"}, {"left"}}

ReplayInit ==
    LET both(L) ==
            /\ room = L.room
            /\ gameState = L.gameState
            /\ replayState = L.gameState
            /\ players = L.players
            /\ antiCheat = NewAntiCheat(TRUE)
            /\ rateLimits = L.rateLimits
            /\ now = StartTime
            /\ emitted = <<>>
            /\ last = Step("initialize", "none", "ok")
            /\ log = L.log
            /\ activeRecordings = L.activeRecordings
            /\ manager = NoManager
    IN  both(Lobby(StockConfig, "bluey", StartTime))

\* GameState.applyInput on both engines, before the first tick
ReplayInput(s, on) ==
    /\ gameState.frame = 0 /\ gameState.players[s].inputState = NoKeys
    /\ gameState' = applyInput(gameState, s, Held(on, 0))
    /\ replayState' = applyInput(replayState, s, Held(on, 0))
    /\ last' = Step("applyInput", s, "ok")
    /\ UNCHANGED <<room, players, antiCheat, rateLimits, now, emitted, log,
                   activeRecordings, manager>>

\* GameState.tick(frame) on both engines
ReplayTick ==
    /\ gameState.frame < ReplayMaxFrame
    /\ \E rnd \in Oracles(gameState) : gameState' = tick(gameState, gameState.frame + 1, rnd)
    /\ \E rnd \in Oracles(replayState) : replayState' = tick(replayState, gameState.frame + 1, rnd)
    /\ last' = Step("tick", "none", "ticked")
    /\ UNCHANGED <<room, players, antiCheat, rateLimits, now, emitted, log,
                   activeRecordings, manager>>

ReplayNext ==
    \/ \E s \in Sockets, on \in ReplayInputs : ReplayInput(s, on)
    \/ ReplayTick

SpecReplay == ReplayInit /\ [][ReplayNext]_vars

(***************************************************************************)
(* Position reports: messages of type 'position' checked by               *)
(* AntiCheat.validatePosition                                              *)
(***************************************************************************)
MaxReports == 3

\* the instants, after StartTime, at which the clock is read
PositionTimes == {1010, 1020, 2015, 2025}

Positions == {Vec(0, 0), Vec(10, 0), Vec(500, 0)}

PositionReport(p) ==
    [type |-> "position", data |-> [position |-> p], socketOk |-> TRUE, wellFormed |-> FALSE]

PositionInput(s, p) == log.msgs < MaxReports /\ Receive(s, PositionReport(p))

PositionClock(t) == t > now /\ Elapse(t - now)

PositionNext ==
    \/ \E s \in Sockets, p \in Positions : PositionInput(s, p)
    \/ \E t \in PositionTimes : PositionClock(t)

SpecPosition == MatchInit /\ [][PositionNext]_vars

(***************************************************************************)
(* Flooding: one client sends game:input messages at a steady pace, with   *)
(* one pause at most                                                       *)
(***************************************************************************)
MaxRateMsgs == 40
RateMaxTime == 9000

\* milliseconds between two messages of the flooding client
Paces == {0, 1, 33, 34, 40}

\* the instants at which a paused client resumes
RateTimes == {7000}

RateInit ==
    \E s \in Sockets, pace \in Paces, typed \in BOOLEAN :
        Started([Lobby(StockConfig, "bluey", StartTime) EXCEPT
                    !.log.flood = [socketId |-> s, pace |-> pace, typed |-> typed]])

\* a message of the flood: an input of type 'input', or one without a type
RateMessage(typed) ==
    IF typed THEN Held({"left"}, 0)
    ELSE [frame |-> 0, state |-> Merge(NoKeys, Keys({"left"})), socketOk |-> TRUE,
          wellFormed |-> TRUE]

\* the client's next message arrives, and the client waits for its pace
RateInput(s) ==
    /\ s = log.flood.socketId
    /\ log.msgs < MaxRateMsgs /\ now + log.flood.pace <= RateMaxTime
    /\ Connected(s) /\ s \in DOMAIN players /\ players[s].roomId # 0
    /\ LET rl == checkRateLimit(rateLimits, s, now)
       IN  /\ rateLimits' = rl.limits
           /\ now' = now + log.flood.pace
           /\ IF ~rl.ok
              THEN /\ emitted' = <<"error">>
                   /\ last' = Step("game:input", s, "limited")
                   /\ UNCHANGED <<room, gameState, replayState, players, antiCheat, log,
                                  activeRecordings, manager>>
              ELSE Handled(s, RateMessage(log.flood.typed),
                           gameInput(room, gameState, antiCheat, players, s,
                                     RateMessage(log.flood.typed), now))

RateClock(t) == t > now /\ Elapse(t - now)

RateNext ==
    \/ \E s \in Sockets : RateInput(s)
    \/ \E t \in RateTimes : RateClock(t)

SpecRate == RateInit /\ [][RateNext]_vars

(***************************************************************************)
(* Sessions: a timed session of two players from its start to its end, and *)
(* the next session of the same room.  Messages, forfeits, the game loop,  *)
(* endGameSession, start requests and disconnections interleave.           *)
(***************************************************************************)
MaxSessions == 2
SessionMaxMsgs == 1
SessionMaxRequests == 4

SessionConfig == [maxPlayers |-> 4, gameMode |-> "time", mapId |-> "backyard", stockLives |-> 3]

\* the instants at which the clock is read: at the time limit of the first session
SessionTimes == {StartTime + 300000}

\* an input, and an input without its data field (validateInput throws on it)
SessionInputs ==
    {Held({"left"}, 1),
     [type |-> "input", frame |-> 2, state |-> Merge(NoKeys, Keys({"right"})),
      socketOk |-> TRUE, wellFormed |-> TRUE]}

SessionInit == Started(Lobby(SessionConfig, "none", StartTime))

SessionInput(s, data) == log.msgs < SessionMaxMsgs /\ Receive(s, data)

\* a socket sends requests while the rate limiter has room for them
Requesting(s) == Connected(s) /\ Len(rateLimits[s].requests) < SessionMaxRequests

SessionStart(s) == Requesting(s) /\ log.sessions < MaxSessions /\ StartGame(s)

SessionForfeit(s) == Requesting(s) /\ room.currentFrame < MaxFrame /\ Forfeit(s)

SessionClock(t) == t > now /\ Elapse(t - now)

SessionNext ==
    \/ \E s \in Sockets, data \in SessionInputs : SessionInput(s, data)
    \/ \E s \in Sockets : SessionForfeit(s)
    \/ \E s \in Sockets : SessionStart(s)
    \/ Tick
    \/ EndGameSession
    \/ \E t \in SessionTimes : SessionClock(t)
    \/ \E s \in Sockets : Disconnect(s)

SpecSession == SessionInit /\ [][SessionNext]_vars

(***************************************************************************)
(* Confirmed frames: two clients of a stock match send the inputs of their *)
(* frames in any order while the game loop runs and a client may leave.    *)
(* In SpecConfirm every frame a client sends is within BufferLength frames *)
(* of the room's current frame; in SpecDesync a client may also send       *)
(* frames that are further away.                                           *)
(***************************************************************************)
ConfirmMaxMsgs == 4
ConfirmMaxTicks == 2

\* the frames the clients send: two successive frames and the frame that shares the slot
\* of the first (121 % 120 = 1 % 120)
ConfirmFrames == {1, 2, 1 + BufferLength}

\* frames further than BufferLength from anything the room has reached
DesyncFrames == {3 * BufferLength}

\* frame is at most BufferLength frames behind or ahead of the room's current frame
InWindow(R, frame) ==
    R.currentFrame - BufferLength <= frame /\ frame <= R.currentFrame + BufferLength

ConfirmInit == Started(Lobby(StockConfig, "none", StartTime))

ConfirmInput(s, frame) ==
    /\ log.msgs < ConfirmMaxMsgs /\ InWindow(room, frame)
    /\ Receive(s, Held({"left"}, frame))

DesyncInput(s, frame) ==
    /\ log.msgs < ConfirmMaxMsgs /\ ~InWindow(room, frame)
    /\ Receive(s, Held({"left"}, frame))

\* one iteration of the game loop, an interval after the last
ConfirmTick ==
    /\ room.isGameActive /\ now < StartTime + ConfirmMaxTicks * TickMs
    /\ \E rnd \in Oracles(gameState) : Ticked(roomTick(room, gameState, now + TickMs, rnd))
    /\ now' = now + TickMs
    /\ last' = Step("tick", "none", "ticked")
    /\ UNCHANGED <<replayState, players, antiCheat, rateLimits, log, activeRecordings, manager>>

ConfirmNext ==
    \/ \E s \in Sockets, frame \in ConfirmFrames : ConfirmInput(s, frame)
    \/ ConfirmTick
    \/ \E s \in Sockets : Disconnect(s)

SpecConfirm == ConfirmInit /\ [][ConfirmNext]_vars

DesyncNext ==
    \/ \E s \in Sockets, frame \in ConfirmFrames \cup DesyncFrames : DesyncInput(s, frame)
    \/ ConfirmNext

SpecDesync == ConfirmInit /\ [][DesyncNext]_vars

(***************************************************************************)
(* Decay: state reports that are violations, and the cleanup timer of      *)
(* AntiCheat.initialize, which fires every minute                          *)
(***************************************************************************)
DecayMaxMsgs == 2
DecayMaxMinutes == 5

CleanupMs == 60000

\* a message of type 'state'
StateReport(state) ==
    [type |-> "state", data |-> state, socketOk |-> TRUE, wellFormed |-> FALSE]

\* a report that raises the lives from 3 to 5
DecayInput(s) ==
    /\ log.msgs < DecayMaxMsgs /\ now < DecayMaxMinutes * CleanupMs
    /\ Receive(s, StateReport([lives |-> 5]))

\* some violation is on record
recorded(ac) == \E s \in DOMAIN ac.playerData : DOMAIN ac.playerData[s].violations # {}

\* the timer fires at the next whole minute
Cleanup ==
    /\ now < DecayMaxMinutes * CleanupMs \/ recorded(antiCheat)
    /\ now' = (now \div CleanupMs + 1) * CleanupMs
    /\ antiCheat' = cleanupOldData(antiCheat, (now \div CleanupMs + 1) * CleanupMs)
    /\ emitted' = <<>>
    /\ last' = Step("cleanup", "none", "none")
    /\ UNCHANGED <<room, gameState, replayState, players, rateLimits, log,
                   activeRecordings, manager>>

DecayNext ==
    \/ \E s \in Sockets : DecayInput(s)
    \/ Cleanup

\* the timer is a setInterval: a cleanup that is due is never postponed for ever (weak
\* fairness of Cleanup, written out as for the game loop)
CleanupFair ==
    \/ []<>(~(now < DecayMaxMinutes * CleanupMs \/ recorded(antiCheat)))
    \/ []<><<last'.op = "cleanup">>_vars

SpecDecay == MatchInit /\ [][DecayNext]_vars /\ CleanupFair

(***************************************************************************)
(* Bans: the two sockets of the match were authenticated with the token of *)
(* the same user (auth:login takes player.id from the token), and send     *)
(* combat actions with an excessive damage, and inputs                     *)
(***************************************************************************)
BanMaxMsgs == 4

\* a message of type 'combat'
CombatAction(combatData) ==
    [type |-> "combat", data |-> combatData, socketOk |-> TRUE, wellFormed |-> FALSE]

BanInputs == {CombatAction([type |-> "attack", damage |-> 60]), Held({"left"}, 1)}

\* the lobby L with every player authenticated as userId
authenticated(L, userId) ==
    [L EXCEPT !.players = [s \in DOMAIN @ |-> [@[s] EXCEPT !.id = userId]]]

BanInit == Started(authenticated(Lobby(StockConfig, "none", StartTime), "user"))

BanInput(s, data) == log.msgs < BanMaxMsgs /\ Receive(s, data)

BanNext ==
    \/ \E s \in Sockets, data \in BanInputs : BanInput(s, data)
    \/ \E s \in Sockets : Disconnect(s)

SpecBan == BanInit /\ [][BanNext]_vars

(***************************************************************************)
(* State reports and combat actions: messages of type 'state' and 'combat' *)
(* checked by AntiCheat.validateGameState and validateCombatAction         *)
(***************************************************************************)
ReportMaxMsgs == 3

\* the instants, after StartTime, at which the clock is read
ReportTimes == {1100, 1300}

ReportInputs ==
    {StateReport([lives |-> lives]) : lives \in {2, 4, 5}}
        \cup {StateReport([isAttacking |-> TRUE]),
              CombatAction([type |-> "attack", damage |-> 10]),
              StateReport([health |-> 90, lives |-> 5]),
              PositionReport(Vec(0, 0)), PositionReport(Vec(500, 0))}

ReportInput(s, data) == log.msgs < ReportMaxMsgs /\ Receive(s, data)

ReportClock(t) == t > now /\ Elapse(t - now)

ReportNext ==
    \/ \E s \in Sockets, data \in ReportInputs : ReportInput(s, data)
    \/ \E t \in ReportTimes : ReportClock(t)

SpecReports == MatchInit /\ [][ReportNext]_vars

(***************************************************************************)
(* The creek: a stock match on the map whose ground has gaps (between the  *)
(* banks at x 0..400 and 800..1200 only a thin platform at x 500..700), in *)
(* which the clients press a direction                                     *)
(***************************************************************************)
CreekMaxFrame == 120
CreekMaxMsgs == 2

CreekConfig == [maxPlayers |-> 4, gameMode |-> "stock", mapId |-> "creek", stockLives |-> 3]

\* the frames at which a client changes its keys, and the keys it may hold then
CreekFrames == {0, 40}

CreekKeys == {{"left"}, {"right"}}

CreekInit == Started(Lobby(CreekConfig, "bluey", StartTime))

CreekInput(s, on) ==
    /\ room.isGameActive /\ room.currentFrame \in CreekFrames
    /\ log.msgs < CreekMaxMsgs
    /\ ~hasInput(room, s, room.currentFrame)
    /\ Receive(s, Held(on, room.currentFrame))

CreekTick == room.currentFrame < CreekMaxFrame /\ MatchTick

CreekNext ==
    \/ \E s \in Sockets, on \in CreekKeys : CreekInput(s, on)
    \/ CreekTick

SpecCreek == CreekInit /\ [][CreekNext]_vars

(***************************************************************************)
(* Combat: a stock match of two blueys who run to the left edge holding    *)
(* the attack key (basic attacks) or the special key (keepy-uppy balls)    *)
(***************************************************************************)
CombatMaxFrame == 400

CombatKeys == {{"left", "attack"}, {"left", "special"}}

CombatInput(s, on) ==
    /\ room.isGameActive /\ room.currentFrame = 0
    /\ ~hasInput(room, s, 0)
    /\ Receive(s, Held(on, 0))

CombatTick == room.currentFrame < CombatMaxFrame /\ MatchTick

CombatNext ==
    \/ \E s \in Sockets, on \in CombatKeys : CombatInput(s, on)
    \/ CombatTick

SpecCombat == MatchInit /\ [][CombatNext]_vars

(***************************************************************************)
(* Rankings: a session of either mode at the moment it ends, by the game   *)
(* loop's win condition or by endGameSession.  The statistics of the two   *)
(* players at that moment are drawn from the lives and scores a session    *)
(* can produce: a knockout scores 100, a collectible 50, 100 or 150.       *)
(***************************************************************************)
RankMaxFrame == 1

RankModes == {"classic", "time", "stock"}

RankLives == 0..3

RankScores == {0, 100, 150, 200}

RankConfig(mode) == [maxPlayers |-> 4, gameMode |-> mode, mapId |-> "backyard", stockLives |-> 3]

\* the engine's players with lives and score set: lives[s] left, score[s] scored
withStats(L, lives, score) ==
    [L EXCEPT !.gameState.players =
        [s \in DOMAIN @ |->
            [@[s] EXCEPT !.lives = lives[s], !.deaths = 3 - lives[s],
                         !.eliminated = (lives[s] = 0),
                         !.score = score[s], !.knockouts = score[s] \div 100]]]

RankInit ==
    \E mode \in RankModes, lives \in [Sockets -> RankLives], score \in [Sockets -> RankScores] :
        Started(withStats(Lobby(RankConfig(mode), "none", StartTime), lives, score))

RankTick == room.currentFrame < RankMaxFrame /\ MatchTick

RankEnd == room.isGameActive /\ EndGameSession

RankNext ==
    \/ RankTick
    \/ RankEnd

SpecRanking == RankInit /\ [][RankNext]_vars

(***************************************************************************)
(* Forfeits: the first frames of a two-player session of either mode, in   *)
(* which a player may forfeit at any moment.                               *)
(***************************************************************************)
ForfeitMaxFrame == 10

ForfeitMaxRequests == 4

ForfeitInit == \E mode \in RankModes : Started(Lobby(RankConfig(mode), "none", StartTime))

ForfeitTick == room.currentFrame < ForfeitMaxFrame /\ MatchTick

ForfeitGame(s) ==
    /\ Len(rateLimits[s].requests) < ForfeitMaxRequests /\ room.currentFrame < ForfeitMaxFrame
    /\ Forfeit(s)

ForfeitNext ==
    \/ ForfeitTick
    \/ \E s \in Sockets : ForfeitGame(s)

SpecForfeit == ForfeitInit /\ [][ForfeitNext]_vars

(***************************************************************************)
(* Replay files: a recording of up to three frames is compressed when the  *)
(* recording stops and decompressed when the replay is loaded.  log.replay *)
(* is the recording object that stopRecording and loadReplay work on.      *)
(***************************************************************************)
CodecMaxFrames == 3

\* the positions of a player in a recorded frame: Math.round of the engine's position
CodecPositions == {Vec(0, 0), Vec(100, 400), Vec(130, 380)}

\* a recorded frame: no game state, or the positions of one or two players
CodecFrames ==
    {[gameState |-> NullState]} \cup
    {[gameState |-> [null |-> FALSE, players |-> p]] :
        p \in {<<a>> : a \in CodecPositions} \cup {<<a, b>> : a, b \in CodecPositions}}

CodecRecordings ==
    UNION {[1..n -> CodecFrames] : n \in 0..CodecMaxFrames}

CodecInit ==
    /\ room = NoRoom
    /\ gameState = NewGameState
    /\ replayState = NewGameState
    /\ players = [s \in {} |-> 0]
    /\ antiCheat = NewAntiCheat(TRUE)
    /\ rateLimits = [s \in Sockets |-> NewRateLimit]
    /\ now = StartTime
    /\ emitted = <<>>
    /\ last = Step("record", "none", "none")
    /\ activeRecordings = NoRecordings
    /\ manager = NoManager
    /\ \E frames \in CodecRecordings :
          log = [NoLog EXCEPT !.replay = [NoReplay EXCEPT !.frames = frames, !.recorded = frames]]

\* stopRecording with compression enabled: the recording is compressed and written
StopRecording ==
    /\ ~log.replay.compressed /\ last.op # "loadReplay"
    /\ log' = [log EXCEPT !.replay = compressReplay(@)]
    /\ emitted' = <<>>
    /\ last' = Step("stopRecording", "none", "saved")
    /\ UNCHANGED <<room, gameState, replayState, players, antiCheat, rateLimits, now,
                   activeRecordings, manager>>

\* loadReplay of the file written
LoadReplay ==
    /\ last.op = "stopRecording"
    /\ log' = [log EXCEPT !.replay = decompressReplay(@)]
    /\ emitted' = <<>>
    /\ last' = Step("loadReplay", "none", "loaded")
    /\ UNCHANGED <<room, gameState, replayState, players, antiCheat, rateLimits, now,
                   activeRecordings, manager>>

CodecNext ==
    \/ StopRecording
    \/ LoadReplay

SpecCodec == CodecInit /\ [][CodecNext]_vars

(***************************************************************************)
(* Elimination: a time session of two players with one life each, which    *)
(* goes on after a player has lost it.  The players hold left and attack.  *)
(***************************************************************************)
ElimMaxFrame == 1500

ElimConfig == [maxPlayers |-> 4, gameMode |-> "time", mapId |-> "backyard", stockLives |-> 1]

ElimInit == Started(Lobby(ElimConfig, "bluey", StartTime))

ElimInput(s) == room.currentFrame = 0 /\ MatchInput(s)

ElimTick == room.currentFrame < ElimMaxFrame /\ MatchTick

ElimNext ==
    \/ \E s \in Sockets : ElimInput(s)
    \/ ElimTick

SpecElim == ElimInit /\ [][ElimNext]_vars

(***************************************************************************)
(* Guarding: the first frames of a stock session in which the players hold *)
(* the shield key, the dodge key or both.                                  *)
(***************************************************************************)
GuardMaxFrame == 200

GuardKeys == {{"shield"}, {"dodge"}, {"shield", "dodge"}}

GuardInput(s, on) ==
    /\ room.isGameActive /\ room.currentFrame = 0
    /\ ~hasInput(room, s, 0)
    /\ Receive(s, Held(on, 0))

GuardTick == room.currentFrame < GuardMaxFrame /\ MatchTick

GuardNext ==
    \/ \E s \in Sockets, on \in GuardKeys : GuardInput(s, on)
    \/ GuardTick

SpecGuard == MatchInit /\ [][GuardNext]_vars

(***************************************************************************)
(* The registry: two logged-in sockets create, join and leave rooms, join  *)
(* and leave matchmaking, and disconnect; no session is started.           *)
(***************************************************************************)
RegMaxRooms == 3
RegMaxRequests == 4

RegConfigs == {[gameMode |-> "classic"], [gameMode |-> "stock", maxPlayers |-> 1]}

RegPreferences == {[gameMode |-> "stock"], [mapId |-> "backyard"]}

RegistryInit ==
    /\ room = NoRoom
    /\ gameState = NewGameState
    /\ replayState = NewGameState
    /\ players = [s \in Sockets |-> NewPlayer(s, "none")]
    /\ antiCheat = NewAntiCheat(TRUE)
    /\ rateLimits = [s \in Sockets |-> [requests |-> <<StartTime>>, blockedUntil |-> 0]]
    /\ now = StartTime
    /\ emitted = <<"auth:success">>
    /\ last = Step("auth:login", "b", "ok")
    /\ log = NoLog
    /\ activeRecordings = NoRecordings
    /\ manager = NoManager

\* a packet of socket s may come
Asking(s) ==
    /\ Connected(s) /\ s \in DOMAIN players
    /\ Len(rateLimits[s].requests) < RegMaxRequests

\* a handler of the registry has run: the manager and the players after it
Registered(s, op, verdict, r, events) ==
    /\ manager' = r.manager
    /\ players' = r.players
    /\ emitted' = events
    /\ last' = Step(op, s, verdict)
    /\ UNCHANGED <<room, gameState, replayState, antiCheat, now, log, activeRecordings>>

\* a handler of the registry has refused the packet
Refused(s, op) ==
    /\ emitted' = <<"error">>
    /\ last' = Step(op, s, "error")
    /\ UNCHANGED <<room, gameState, replayState, players, antiCheat, now, log,
                   activeRecordings, manager>>

\* room:create, over the registry
RegistryCreate(s, data) ==
    /\ Asking(s) /\ manager.created < RegMaxRooms
    /\ LET rl == checkRateLimit(rateLimits, s, now)
           created(r) == Registered(s, "room:create", IF r.ok THEN "ok" ELSE "error", r,
                                    IF r.ok THEN r.events \o <<"room:created">>
                                    ELSE <<"error">>)
       IN  /\ rateLimits' = rl.limits
           /\ IF ~rl.ok THEN Limited(s, "room:create")
              ELSE IF players[s].roomId # 0 THEN Refused(s, "room:create")
              ELSE created(createRoom(manager, players, s, data))

\* room:join, over the registry
RegistryJoin(s, roomId) ==
    /\ Asking(s)
    /\ LET rl == checkRateLimit(rateLimits, s, now)
           joined(r) == Registered(s, "room:join", IF r.ok THEN "ok" ELSE "error", r,
                                   IF r.ok THEN r.events \o <<"room:joined">>
                                   ELSE <<"error">>)
       IN  /\ rateLimits' = rl.limits
           /\ IF ~rl.ok THEN Limited(s, "room:join")
              ELSE IF players[s].roomId # 0 THEN Refused(s, "room:join")
              ELSE joined(joinRoom(manager, players, s, roomId))

\* room:leave, over the registry
RegistryLeave(s) ==
    /\ Asking(s)
    /\ LET rl == checkRateLimit(rateLimits, s, now)
           left(r) ==
               /\ manager' = r.manager
               /\ players' = r.players
               /\ emitted' = r.events \o <<"room:left">>
               /\ last' = Step("room:leave", s, "ok")
               /\ activeRecordings' = IF r.stopped # 0
                                      THEN stopRecording(activeRecordings, r.stopped)
                                      ELSE activeRecordings
               /\ UNCHANGED <<room, gameState, replayState, antiCheat, now, log>>
       IN  /\ rateLimits' = rl.limits
           /\ IF ~rl.ok THEN Limited(s, "room:leave")
              ELSE IF players[s].roomId = 0 THEN Refused(s, "room:leave")
              ELSE left(leaveRegisteredRoom(manager, players, s, players[s].roomId))

\* matchmaking:join
MatchmakingJoin(s, preferences) ==
    /\ Asking(s) /\ manager.created < RegMaxRooms
    /\ LET rl == checkRateLimit(rateLimits, s, now)
           queued(r) == Registered(s, "matchmaking:join",
                                   IF ~r.ok THEN "error" ELSE IF r.failed THEN "failed"
                                   ELSE "ok", r,
                                   IF r.ok THEN r.events \o <<"matchmaking:joined">>
                                   ELSE <<"error">>)
       IN  /\ rateLimits' = rl.limits
           /\ IF ~rl.ok THEN Limited(s, "matchmaking:join")
              ELSE IF players[s].roomId # 0 THEN Refused(s, "matchmaking:join")
              ELSE queued(joinMatchmaking(manager, players, s, preferences))

\* matchmaking:leave
MatchmakingLeave(s) ==
    /\ Asking(s)
    /\ LET rl == checkRateLimit(rateLimits, s, now)
           waits == \E i \in DOMAIN manager.matchmaking : manager.matchmaking[i].socketId = s
       IN  /\ rateLimits' = rl.limits
           /\ IF ~rl.ok THEN Limited(s, "matchmaking:leave")
              ELSE Registered(s, "matchmaking:leave", "ok",
                              [manager |-> removeFromMatchmaking(manager, s),
                               players |-> players],
                              IF waits THEN <<"matchmaking:left">> ELSE <<>>)

\* the disconnect handler of socket s, over the registry
RegistryDisconnect(s) ==
    /\ Connected(s)
    /\ rateLimits' = Without(rateLimits, s)
    /\ LET r == removeRegisteredPlayer(manager, players, s)
       IN  /\ manager' = r.manager
           /\ players' = r.players
           /\ emitted' = r.events
           /\ activeRecordings' = IF r.stopped # 0
                                  THEN stopRecording(activeRecordings, r.stopped)
                                  ELSE activeRecordings
    /\ last' = Step("disconnect", s, "none")
    /\ UNCHANGED <<room, gameState, replayState, antiCheat, now, log>>

RegistryNext ==
    \/ \E s \in Sockets, data \in RegConfigs : RegistryCreate(s, data)
    \/ \E s \in Sockets, roomId \in 1..RegMaxRooms : RegistryJoin(s, roomId)
    \/ \E s \in Sockets : RegistryLeave(s)
    \/ \E s \in Sockets, preferences \in RegPreferences : MatchmakingJoin(s, preferences)
    \/ \E s \in Sockets : MatchmakingLeave(s)
    \/ \E s \in Sockets : RegistryDisconnect(s)

SpecRegistry == RegistryInit /\ [][RegistryNext]_vars

(***************************************************************************)
(* Claims                                                                  *)
(***************************************************************************)

\* C1: two fresh engines, initialized with the same configuration and fed the same sequence
\* of applyInput and tick calls, are in the same state after every step (players, toys,
\* collectibles and entities; respawn points and teleports included)
C1_ReplayDeterministic == replayState = gameState

SessionOver == room.id = 0 \/ ~room.isGameActive

TickAdvances ==
    (last'.op = "tick" /\ last'.verdict = "ticked") =>
        /\ room'.currentFrame = room.currentFrame + 1
        /\ gameState'.frame = room.currentFrame + 1
        /\ \A s \in DOMAIN gameState.players :
              gameState'.players[s].inputState = gameState.players[s].inputState

\* C10: every tick of a running session advances the room's frame counter by exactly one and
\* runs the engine on that frame with the players' input states as they stand, whatever
\* confirmedFrame is; and with a game loop that keeps firing the frame counter reaches
\* every frame up to the bound unless the session is over first
C10_StalledPlayerNeverBlocks ==
    /\ [][TickAdvances]_vars
    /\ <>(SessionOver \/ room.currentFrame >= MaxFrame)

\* C10 witness: a tick has just advanced a session in which a player has sent no input at
\* all, so that no frame is confirmed
C10_TickedWhileStalled ==
    /\ last.op = "tick" /\ last.verdict = "ticked"
    /\ room.isGameActive /\ room.currentFrame >= 2 /\ room.confirmedFrame = 0
    /\ \E s \in DOMAIN room.inputBuffer : room.inputBuffer[s] = EmptyBuffer

\* the position reports of socket s that passed the validation, in order
acceptedReports(s) == log.reports[s]

\* distance / elapsed <= speedHack * 60 pixels per second, elapsed in milliseconds: the
\* same comparison as tooFast makes, and no distance at all in no time
withinCeiling(from, to) ==
    LET elapsed == to.timestamp - from.timestamp
    IN  distanceSquared(from.position, to.position) * 25 <= 36 * elapsed * elapsed

\* C3: between any two consecutive position reports of one player that validatePosition
\* accepted, the implied speed is at most speedHack * 60 = 1200 pixels per second
C3_NoImpossibleJump ==
    \A s \in Sockets :
        \A i \in 1..(Len(acceptedReports(s)) - 1) :
            withinCeiling(acceptedReports(s)[i], acceptedReports(s)[i + 1])

\* the times at which a message of socket s passed the rate limit and the validation
acceptedTimes(s) == log.accepted[s]

\* C4: no more than 30 inputs of one player are accepted in any window of one second: of
\* any 31 accepted inputs of a player, the last comes at least 1000 ms after the first
C4_AtMostThirtyPerSecond ==
    \A s \in Sockets :
        \A i \in 1..(Len(acceptedTimes(s)) - 30) :
            acceptedTimes(s)[i + 30] - acceptedTimes(s)[i] >= 1000

\* C4 witness: a 31st input of a player has been accepted (after the window of the first
\* passed), and the rate limit has just refused one of the player's messages
C4_FloodRefused ==
    /\ last.op = "game:input" /\ last.verdict = "limited"
    /\ last.socketId \in Sockets /\ Len(acceptedTimes(last.socketId)) >= 31

\* the other player of a session of two
opponent(s) == CHOOSE o \in Sockets : o # s

\* C5: stock mode, two players, three lives: every knockout of a player lowers the player's
\* lives by one, and in the step in which a player's lives reach 0 the session ends
\* (game:end is emitted, isGameActive becomes false) with the other player as winner and
\* ranked first
C5_LastLifeEndsWithOtherWinner ==
    [][\A s \in Sockets :
          /\ gameState'.players[s].deaths > gameState.players[s].deaths =>
                gameState'.players[s].lives = gameState.players[s].lives - 1
          /\ (gameState.players[s].lives > 0 /\ gameState'.players[s].lives = 0) =>
                /\ ~room'.isGameActive
                /\ "game:end" \in Range(emitted')
                /\ room'.gameResults.winner = opponent(s)
                /\ room'.gameResults.rankings[1].playerId = opponent(s)]_vars

\* player s has been knocked out in this step with a damage of exactly the threshold
knockedOutAtThreshold(s) ==
    /\ gameState'.players[s].deaths = gameState.players[s].deaths + 1
    /\ gameState'.players[s].knockoutDamage = 100

healed(s) ==
    \E j \in DOMAIN gameState.toys :
        /\ gameState.toys[j].effect.type = "health_restore"
        /\ gameState.toys[j].active /\ ~gameState'.toys[j].active
        /\ Within(gameState'.players[s].position, gameState.toys[j].position, Px(40))

\* C7 as stated: a player's damage after a tick is at least the damage before it, unless a
\* healing pickup was applied to the player in that tick
C7_DamageNeverDecreases ==
    [][\A s \in Sockets :
          \/ gameState'.players[s].damage >= gameState.players[s].damage
          \/ healed(s)]_vars

\* C7 amended: a player's damage after a tick is at least the damage before it, unless the
\* player was knocked out in that tick (which resets it to 0)
C7_DamageDecreasesOnlyByKnockout ==
    [][\A s \in Sockets :
          \/ gameState'.players[s].damage >= gameState.players[s].damage
          \/ gameState'.players[s].deaths > gameState.players[s].deaths]_vars

\* C7 witness: a player knocked out a second time has just had the damage reset from 100 to 0
C7_DamageReset ==
    /\ last.op = "tick"
    /\ \E s \in Sockets :
          /\ gameState.players[s].deaths = 2 /\ gameState.players[s].knockoutDamage = 100
          /\ gameState.players[s].damage = 0
          /\ gameState.players[s].respawnFrames >= mechanics.respawnTime - 1

\* C8: a player's lives never exceed the lives at the start of the session and never
\* increase, and they go down by exactly one for each knockout of the player
C8_LivesOnlyDecrease ==
    /\ [](\A s \in Sockets : gameState.players[s].lives <= StockConfig.stockLives)
    /\ [][\A s \in Sockets :
             /\ gameState'.players[s].lives <= gameState.players[s].lives
             /\ gameState.players[s].lives - gameState'.players[s].lives =
                   gameState'.players[s].deaths - gameState.players[s].deaths]_vars

\* C8 witness: a player knocked out twice is down to the last life while the session runs
C8_TwoLivesLost ==
    /\ room.isGameActive
    /\ \E s \in Sockets : gameState.players[s].lives = 1 /\ gameState.players[s].deaths = 2

\* C9: a projectile created with 3 bounces stays in the entity set through its first 3
\* platform collisions, its bounce count being 3 less the collisions so far (3, 2, 1, 0), and
\* a platform collision removes it only as its 4th, with no bounce left
C9_RemovedOnFourthCollision ==
    /\ \A i \in DOMAIN gameState.entities :
          gameState.entities[i].configured = 3 =>
              /\ gameState.entities[i].collisions \in 0..3
              /\ gameState.entities[i].bounces = 3 - gameState.entities[i].collisions
    /\ \A i \in DOMAIN gameState.destroyed :
          gameState.destroyed[i].configured = 3 =>
              /\ gameState.destroyed[i].collisions = 4
              /\ gameState.destroyed[i].bounces = 0

\* C9 witness: the last tick removed a projectile of 3 bounces at a platform collision, while
\* another one that has bounced is still in the entity set
C9_RemovedAfterThreeBounces ==
    /\ \E i \in DOMAIN gameState.destroyed : gameState.destroyed[i].configured = 3
    /\ \E i \in DOMAIN gameState.entities :
          gameState.entities[i].configured = 3 /\ gameState.entities[i].collisions > 0

\* C11: while a session runs, only the game loop moves it on: a step that changes the
\* room's frame counter or the engine's frame is a turn of the game loop, and it raises the
\* frame counter by exactly one
C11_OnlyTheLoopAdvances ==
    [][(/\ room.isGameActive /\ room'.sessionId = room.sessionId
        /\ (room'.currentFrame # room.currentFrame \/ gameState'.frame # gameState.frame))
          => (last'.op = "tick" /\ room'.currentFrame = room.currentFrame + 1)]_vars

\* the engine has moved player p on by a frame: p, in the air at the start of a session,
\* has fallen
fallen(p) == gameState'.players[p].position.y > gameState.players[p].position.y

C13_StartFailsOrInitializes ==
    /\ []((room.id # 0 /\ (Len(room.players) < 2 \/ room.isGameActive)) =>
            startGameSession(room, gameState, players, now, log.sessions + 1)
               = [ok |-> FALSE, room |-> room, gameState |-> gameState, events |-> <<>>])
    /\ [][last'.op = "game:start" =>
             IF last'.verdict = "ok"
             THEN /\ Len(room.players) >= 2 /\ ~room.isGameActive
                  /\ room'.isGameActive
                  /\ room'.currentFrame = 0 /\ room'.confirmedFrame = 0
                  /\ DOMAIN gameState'.players = Range(room'.players)
                  /\ emitted' = <<"game:start">>
             ELSE /\ room' = room /\ gameState' = gameState
                  /\ "game:start" \notin Range(emitted')]_vars

\* C13 witness: the host, alone in the room after a session, asked to start and was refused
C13_RefusedAlone ==
    /\ last.op = "game:start" /\ last.verdict = "error"
    /\ Len(room.players) = 1 /\ room.host = last.socketId /\ ~room.isGameActive

\* C14: on a session that is not active, processPlayerInput returns false and tick returns
\* at once: room (frame counters, input buffers), engine and broadcasts are untouched
C14_InactiveIsNoOp ==
    (room.id # 0 /\ ~room.isGameActive) =>
        /\ \A s \in Sockets, data \in SessionInputs :
              processPlayerInput(room, gameState, s, data, now)
                 = [ok |-> FALSE, room |-> room, gameState |-> gameState, events |-> <<>>]
        /\ \A rnd \in Oracles(gameState) :
              roomTick(room, gameState, now, rnd)
                 = [room |-> room, gameState |-> gameState, events |-> <<>>]

\* C14 witness: the game loop has turned on a room whose session has ended
C14_TickedWhileEnded ==
    /\ room.id # 0 /\ ~room.isGameActive /\ room.gameEndTime # 0
    /\ last = Step("tick", "none", "idle")

\* C15: game:end is emitted by a step that ends the running session, once in that step;
\* a session that has ended becomes active only as a new session; on an ended session
\* the game loop, a forfeit and endGameSession change neither frame counter nor engine
\* nor the stored results, and emit no game:end
C15_EndsOnce ==
    [][/\ "game:end" \in Range(emitted') =>
             /\ room.isGameActive /\ ~room'.isGameActive
             /\ room'.sessionId = room.sessionId
             /\ Cardinality({i \in DOMAIN emitted' : emitted'[i] = "game:end"}) = 1
       /\ (~room.isGameActive /\ room'.isGameActive) => room'.sessionId > room.sessionId
       /\ (~room.isGameActive /\ last'.op \in {"tick", "endGameSession", "game:forfeit"}) =>
             /\ room'.currentFrame = room.currentFrame
             /\ gameState' = gameState
             /\ room'.gameResults = room.gameResults
             /\ "game:end" \notin Range(emitted')]_vars

\* C15 witness: endGameSession was called on a session that had ended before
C15_EndedAgain ==
    /\ last = Step("endGameSession", "none", "none")
    /\ ~room.isGameActive /\ room.gameEndTime # 0

\* C16: every recording in progress is the recording of the session that is running: no
\* recording of a session that has ended is left among the active recordings
C16_EndedSessionsNotRecording ==
    \A id \in DOMAIN activeRecordings :
        /\ room.id = activeRecordings[id].roomId
        /\ room.isGameActive
        /\ room.sessionId = activeRecordings[id].sessionId

\* the slots of socket s whose content differs between the buffers B and C
written(B, C, s) ==
    {i \in DOMAIN C[s] : i \notin DOMAIN B[s] \/ C[s][i] # B[s][i]}

\* C17: an input whose frame is more than 120 frames behind or more than 120 frames ahead of
\* the session's current frame is dropped: no game:input step stores an input of such a
\* frame in a player's buffer, or moves the current frame to such a frame
C17_DesyncInputDropped ==
    [][last'.op = "game:input" /\ room'.id # 0
        => /\ InWindow(room, room'.currentFrame)
           /\ \A s \in DOMAIN room.inputBuffer \cap DOMAIN room'.inputBuffer :
                \A i \in written(room.inputBuffer, room'.inputBuffer, s) :
                    InWindow(room, room'.inputBuffer[s][i].frame)]_vars

\* C18: when the confirmed frame advances from c to c2, every player of the room has, for
\* every frame f with c < f <= c2, an input of frame exactly f in slot f % 120; and the
\* advance stopped at the current frame or at a frame some player has no such input for
C18_ConfirmedSound ==
    [][room'.sessionId = room.sessionId /\ room'.confirmedFrame > room.confirmedFrame
        => /\ \A f \in (room.confirmedFrame + 1)..room'.confirmedFrame :
                \A i \in DOMAIN room'.players : hasInput(room', room'.players[i], f)
           /\ \/ room'.confirmedFrame >= room'.currentFrame
              \/ \E i \in DOMAIN room'.players :
                    ~hasInput(room', room'.players[i], room'.confirmedFrame + 1)]_vars

\* C18 witness: the confirmed frame has advanced, and a slot of a player now holds the input
\* of the frame 120 later
C18_ConfirmedThenWrapped ==
    /\ room.confirmedFrame >= 1
    /\ \E s \in Range(room.players) : hasInput(room, s, 1 + BufferLength)

\* C19: while both players are connected, once the inputs of every player for every frame
\* 1..f have been received and accepted, in whatever order, the confirmed frame is at
\* least f
C19_ConfirmedComplete ==
    \A f \in ConfirmFrames :
        (/\ room.isGameActive /\ Range(room.players) = Sockets
         /\ \A s \in Sockets : \A g \in 1..f : g \in log.received[s])
        => room.confirmedFrame >= f

\* C20: the players that own an input buffer are exactly the players of the room
C20_BuffersOfConnectedPlayers ==
    room.id # 0 => DOMAIN room.inputBuffer = Range(room.players)

\* C20 witness: a player has left, and the confirmed frame has since advanced over a frame
\* that player never sent
C20_ConfirmedWithoutLeaver ==
    /\ room.id # 0 /\ room.confirmedFrame >= 2
    /\ \E s \in Sockets : s \notin Range(room.players) /\ 2 \notin log.received[s]

\* the number of violations of kind v recorded for socket s in the AntiCheat object ac
violationCount(ac, s, v) ==
    IF s \in DOMAIN ac.playerData /\ v \in DOMAIN ac.playerData[s].violations
    THEN ac.playerData[s].violations[v].count
    ELSE 0

\* the kinds of violation recorded for socket s in ac
violationKinds(ac, s) ==
    IF s \in DOMAIN ac.playerData THEN DOMAIN ac.playerData[s].violations ELSE {}

\* between ac and next, a violation count of socket s has crossed the threshold of tier
crossed(ac, next, s, tier) ==
    \E v \in violationKinds(next, s) :
        LET rules == IF v \in DOMAIN severityRules THEN severityRules[v] ELSE defaultRules
        IN  violationCount(ac, s, v) < rules[tier] /\ rules[tier] <= violationCount(next, s, v)

\* the warnings issued to socket s so far
warnings(ac, s) == IF s \in DOMAIN ac.playerData THEN ac.playerData[s].warningCount ELSE 0

\* C21: a warning is issued to a player, a player is kicked and a player is banned only by
\* the violation whose count crosses the threshold of that tier; later violations within
\* the same tier trigger nothing
C21_OncePerCrossing ==
    [][/\ \A s \in Sockets :
            warnings(antiCheat', s) > warnings(antiCheat, s)
                => crossed(antiCheat, antiCheat', s, "medium")
       /\ \A s \in Sockets :
            (last'.socketId = s /\ "anti-cheat:kick" \in Range(emitted'))
                => crossed(antiCheat, antiCheat', s, "high")
       /\ \A s \in Sockets :
            (last'.socketId = s /\ "anti-cheat:ban" \in Range(emitted'))
                => crossed(antiCheat, antiCheat', s, "critical")]_vars

\* the time of the last violation of kind v recorded for socket s
lastOccurrence(ac, s, v) == ac.playerData[s].violations[v].lastOccurrence

\* what a step does to the violation count of kind v of socket s: a count rises only when
\* the handler of a message records an occurrence; it falls only by one, in a cleanup more
\* than the decay window after the last occurrence, and then it does fall
decays(s, v) ==
    LET count == violationCount(antiCheat, s, v)
        next == violationCount(antiCheat', s, v)
        due == /\ last'.op = "cleanup" /\ count > 0
               /\ now' - lastOccurrence(antiCheat, s, v) > windows.violationDecay
    IN  /\ next > count => last'.op = "game:input"
        /\ next < count => due
        /\ due => next = count - 1

\* C22: a violation count rises only when an occurrence is recorded, is never negative, is
\* left alone by a cleanup within the decay window of its last occurrence, falls by one in
\* every cleanup after it, and reaches 0, where its record is removed
C22_ViolationsDecay ==
    /\ [](\A s \in Sockets : \A v \in violationKinds(antiCheat, s) :
            violationCount(antiCheat, s, v) > 0)
    /\ [][\A s \in Sockets :
            \A v \in violationKinds(antiCheat, s) \cup violationKinds(antiCheat', s) :
                decays(s, v)]_vars
    /\ \A s \in Sockets : (recorded(antiCheat) ~> violationKinds(antiCheat, s) = {})

\* C22 witness: a cleanup has just brought the count of two occurrences, a minute or more
\* apart, down to 1
C22_Decayed ==
    /\ last.op = "cleanup"
    /\ \E s \in Sockets :
          /\ violationCount(antiCheat, s, "lives_manipulation") = 1
          /\ now - lastOccurrence(antiCheat, s, "lives_manipulation") > windows.violationDecay
          /\ antiCheat.playerData[s].violations["lives_manipulation"].firstOccurrence
                 < lastOccurrence(antiCheat, s, "lives_manipulation")

\* the thresholds of the violations of kind v
rulesOf(v) == IF v \in DOMAIN severityRules THEN severityRules[v] ELSE defaultRules

lastLives(ac, s) == IF s \in DOMAIN ac.playerData THEN ac.playerData[s].lastLives ELSE 3

\* C24: a state report whose lives are above the lives of the player's last accepted state
\* report (initially 3) is rejected: no message passes the validation and raises the
\* lives on record
C24_LivesNeverIncrease ==
    [][\A s \in Sockets :
            (last'.op = "game:input" /\ last'.socketId = s
                /\ last'.verdict \in {"applied", "dropped"})
                => lastLives(antiCheat', s) <= lastLives(antiCheat, s)]_vars

\* C25: any two attack submissions of a player that passed the validation are at least
\* 250 ms apart
C25_AttackCooldown ==
    \A s \in Sockets : \A i, j \in DOMAIN log.attacks[s] :
        i < j => log.attacks[s][j] - log.attacks[s][i] >= 250

\* player s is below the stage's lower bound
offStage(E, s) == E.players[s].position.y > physics.stageHeight

\* C26: a player who is below the stage's lower bound after a tick, and was above it and in
\* play before, has lost one life in that tick, has a damage of 0 and is respawning (or
\* eliminated, on the last life), hit or not
C26_KnockedOutOffStage ==
    [][\A s \in Sockets :
          (/\ last'.op = "tick" /\ s \in DOMAIN gameState.players
           /\ ~offStage(gameState, s) /\ offStage(gameState', s)
           /\ ~gameState.players[s].isRespawning /\ ~gameState.players[s].eliminated)
          => /\ gameState'.players[s].lives = gameState.players[s].lives - 1
             /\ gameState'.players[s].damage = 0
             /\ gameState'.players[s].isRespawning \/ gameState'.players[s].eliminated]_vars

\* the spawn points of the engine's map
spawnPointsOf(E) == Range(spawnPoints[loadMap(E.mapId)])

\* C27: a player knocked out with lives left has the whole respawn duration (180 ticks)
\* ahead after the tick of the knockout, whoever is updated first; while the player is
\* respawning no step changes the player's position, velocity or damage; and the tick that
\* ends the respawn state puts the player at a spawn point with zero velocity and an
\* invulnerability above 0
C27_RespawnLastsItsDuration ==
    [][\A s \in Sockets :
          LET before == gameState.players[s]
              after == gameState'.players[s]
          IN  /\ (after.deaths > before.deaths /\ after.isRespawning)
                    => after.respawnFrames = mechanics.respawnTime
              /\ (before.isRespawning /\ after.isRespawning)
                    => /\ after.position = before.position
                       /\ after.velocity = before.velocity
                       /\ after.damage = before.damage
              /\ (before.isRespawning /\ ~after.isRespawning)
                    => /\ last'.op = "tick" /\ before.respawnFrames = 1
                       /\ after.position \in spawnPointsOf(gameState')
                       /\ after.velocity = Vec(0, 0)
                       /\ after.invulnerabilityFrames > 0]_vars

\* C28: a hit is applied only to a player other than the owner of the attack or projectile,
\* whose invulnerability counter is 0 and who is not respawning when the hit test runs; so
\* a tick changes neither the damage, the lives nor the last hit of a player who is
\* respawning or whose counter stays above 0 through the tick
C28_NoHitOnInvulnerable ==
    /\ [](\A s \in DOMAIN gameState.players :
            /\ gameState.players[s].hit.playerId # s
            /\ gameState.players[s].hit.invulnerabilityFrames = 0
            /\ ~gameState.players[s].hit.isRespawning)
    /\ [][\A s \in DOMAIN gameState.players :
            (gameState.players[s].isRespawning \/ gameState.players[s].invulnerabilityFrames > 1)
                => /\ gameState'.players[s].damage = gameState.players[s].damage
                   /\ gameState'.players[s].lives = gameState.players[s].lives
                   /\ gameState'.players[s].hit = gameState.players[s].hit]_vars

\* C28 witness: after a tick an invulnerable player is within reach of another player's
\* ball, which has not hit, in a match in which a basic attack has hit as well
C28_InvulnerableInReach ==
    \E s \in DOMAIN gameState.players : \E i \in DOMAIN gameState.entities :
        /\ last.op = "tick" /\ gameState.entities[i].owner # s
        /\ gameState.players[s].invulnerabilityFrames \in 1..(mechanics.invulnerabilityFrames - 2)
        /\ Within(gameState.players[s].position, gameState.entities[i].position, Px(30))
        /\ \E o \in DOMAIN gameState.players : gameState.players[o].hit.knockback = Vec(3, 1)

\* the ranking r lists the players of stats in the order of mode, with ranks 1..n
ranked(r, stats, mode) ==
    /\ Len(r) = Cardinality(DOMAIN stats)
    /\ {r[i].playerId : i \in DOMAIN r} = DOMAIN stats
    /\ \A i \in DOMAIN r :
        /\ r[i].rank = i
        /\ r[i].score = stats[r[i].playerId].score
        /\ mode = "stock" => r[i].lives = stats[r[i].playerId].lives
    /\ \A i, j \in DOMAIN r :
        i < j =>
            LET x == stats[r[i].playerId]
                y == stats[r[j].playerId]
            IN  IF mode = "stock"
                THEN x.lives > y.lives \/ (x.lives = y.lives /\ x.score >= y.score)
                ELSE x.score >= y.score

\* C29: the final ranking of an ended session lists every player once, with ranks 1..n in
\* order and the player's own statistics; in stock mode it is ordered by lives descending
\* and, among equal lives, by score descending, in classic and time mode by score
\* descending; the winner is the player at rank 1
C29_RankingOrdered ==
    (~room.isGameActive /\ "game:end" \in Range(emitted)) =>
        /\ ranked(room.gameResults.rankings, getPlayerStats(gameState), room.gameMode)
        /\ room.gameResults.winner = room.gameResults.rankings[1].playerId

\* a stock session has ended with the player of fewer points ranked first, for having more
\* lives
C29_MoreLivesFewerPoints ==
    /\ ~room.isGameActive /\ "game:end" \in Range(emitted) /\ room.gameMode = "stock"
    /\ LET r == room.gameResults.rankings
       IN  Len(r) = 2 /\ r[1].lives > r[2].lives /\ r[1].score < r[2].score

\* C30: a basic attack is executed only in a tick at whose input step the player's attack
\* counter is 0 (at most 1 before the tick's decrement), and never by a respawning player;
\* any two successive attacks of a player are at least attackCooldown ticks apart
C30_CooldownRespected ==
    /\ [](\A s \in DOMAIN gameState.players :
            LET a == gameState.players[s].lastAttack
            IN  (a.type = "basic" /\ a.previous >= 0) =>
                    a.frame - a.previous >= mechanics.attackCooldown)
    /\ [][\A s \in DOMAIN gameState.players \cap DOMAIN gameState'.players :
            LET p == gameState.players[s]
                q == gameState'.players[s]
            IN  (q.lastAttack # p.lastAttack /\ q.lastAttack.type = "basic") =>
                    /\ p.attackFrames <= 1 /\ ~p.isRespawning
                    /\ q.lastAttack.frame = gameState'.frame
                    /\ q.attackFrames = mechanics.attackCooldown]_vars

\* a player who holds the attack key has attacked again exactly attackCooldown ticks after
\* the attack before
C30_AttackHeld ==
    \E s \in DOMAIN gameState.players :
        LET p == gameState.players[s]
        IN  /\ p.inputState.attack /\ p.lastAttack.type = "basic"
            /\ p.lastAttack.previous >= 0
            /\ p.lastAttack.frame - p.lastAttack.previous = mechanics.attackCooldown

\* C31: no projectile applies damage twice, a projectile that has applied damage is no longer
\* in the entity set, and a projectile created with lifetime L has made fewer than L ticks:
\* after the tick of frame f it has L - (f - frame of creation) - 1 > 0 ticks left
C31_ProjectileOnceAndExpires ==
    LET E == gameState
    IN  /\ \A i \in DOMAIN E.entities :
            LET e == E.entities[i]
            IN  /\ e.id \notin Range(E.struck)
                /\ e.lifetime > 0
                /\ e.lifetime = e.configuredLifetime - (E.frame - e.frame) - 1
                /\ \A j \in DOMAIN E.entities : i # j => E.entities[j].id # e.id
        /\ \A i, j \in DOMAIN E.struck : i # j => E.struck[i] # E.struck[j]

\* one projectile has applied damage and another is in its last tick
C31_StruckAndExpiring ==
    /\ gameState.struck # <<>>
    /\ \E i \in DOMAIN gameState.entities : gameState.entities[i].lifetime = 1

\* C32: a forfeit that the handler accepts during the active session of two players ends the
\* session: after the handler the engine counts the player with 0 lives, game:end has been
\* emitted and isGameActive is false
C32_ForfeitEndsMatch ==
    [][(last'.op = "game:forfeit" /\ last'.verdict = "ok") =>
            /\ getPlayerStats(gameState')[last'.socketId].lives = 0
            /\ "game:end" \in Range(emitted')
            /\ ~room'.isGameActive]_vars

\* C33: a replay that has been compressed and decompressed again has compressed = false and
\* in every frame the player positions that were recorded
C33_ReplayRoundTrip ==
    last.op = "loadReplay" =>
        /\ ~log.replay.compressed
        /\ log.replay.frames = log.replay.recorded

\* recordings of at most two frames, and recordings in which no three frames in a row have
\* a game state, are restored
C33_ShortReplayRoundTrip ==
    LET f == log.replay.recorded
        chained == \E i \in 3..Len(f) :
                      \A k \in {i - 2, i - 1, i} : ~f[k].gameState.null
    IN  (last.op = "loadReplay" /\ ~chained) =>
            /\ ~log.replay.compressed
            /\ log.replay.frames = log.replay.recorded

\* C34: every player's lives are between 0 and the configured stock count
C34_LivesWithinStock ==
    \A s \in DOMAIN gameState.players :
        /\ gameState.players[s].lives >= 0
        /\ gameState.players[s].lives <= room.settings.stockLives

\* C35: while a session is active the players the engine simulates are the players of the
\* room
C35_EnginePlayersInRoom ==
    room.isGameActive => DOMAIN gameState.players = Range(room.players)

\* C36: when a session starts, every slot of every player's input buffer is empty
C36_SessionsIsolated ==
    [][(last'.op = "game:start" /\ last'.verdict = "ok") =>
            \A s \in DOMAIN room'.inputBuffer : room'.inputBuffer[s] = EmptyBuffer]_vars

\* C37: the confirmed frame is at least 0 and at most the current frame, and within a
\* session it never decreases
C37_ConfirmedBounded ==
    /\ [](0 <= room.confirmedFrame /\ room.confirmedFrame <= room.currentFrame)
    /\ [][(room'.id # 0 /\ room'.sessionId = room.sessionId) =>
            room'.confirmedFrame >= room.confirmedFrame]_vars

\* an input of a far frame has moved the current frame past the buffer length, a player has
\* left, and the confirmed frame has advanced but is behind the current frame
C37_ConfirmedBehind ==
    /\ room.isGameActive /\ Len(room.players) = 1
    /\ room.currentFrame > BufferLength
    /\ 1 <= room.confirmedFrame /\ room.confirmedFrame < room.currentFrame

\* C38: no player has shieldFrames > 0 and dodgeFrames > 0 at the same time
C38_ShieldOrDodge ==
    \A s \in DOMAIN gameState.players :
        ~(gameState.players[s].shieldFrames > 0 /\ gameState.players[s].dodgeFrames > 0)

\* the position the next position report is compared with: that of the last entry of the
\* position history
referencePosition(pd) ==
    IF pd.positionHistory = <<>> THEN Vec(-1, -1)
    ELSE pd.positionHistory[Len(pd.positionHistory)].position

\* C39: a report that the validation rejects leaves the sender's last health, lives and
\* score, and the position the next position report is compared with, as they were
C39_RejectedLeavesReference ==
    [][(/\ last'.op = "game:input" /\ last'.verdict = "rejected"
        /\ last'.socketId \in DOMAIN antiCheat.playerData \cap DOMAIN antiCheat'.playerData) =>
            LET pd == antiCheat.playerData[last'.socketId]
                qd == antiCheat'.playerData[last'.socketId]
            IN  /\ qd.lastHealth = pd.lastHealth
                /\ qd.lastLives = pd.lastLives
                /\ qd.lastScore = pd.lastScore
                /\ referencePosition(qd) = referencePosition(pd)]_vars

\* the rooms of the registry that list socket s among their players
roomsOf(s) == {id \in DOMAIN manager.rooms : s \in Range(manager.rooms[id].players)}

\* C40: every room of the registry has at least one player and its host is one of them; a
\* player's roomId is r exactly when the player is in the player map of room r; and a
\* room:create or matchmaking attempt that fails leaves no new room in the registry
C40_RegistryConsistent ==
    /\ [](\A id \in DOMAIN manager.rooms :
            /\ ~isEmpty(manager.rooms[id])
            /\ manager.rooms[id].host \in Range(manager.rooms[id].players))
    /\ [](\A s \in DOMAIN players :
            roomsOf(s) = IF players[s].roomId = 0 THEN {} ELSE {players[s].roomId})
    /\ [][last'.op \in {"room:create", "matchmaking:join"}
            /\ last'.verdict \in {"error", "failed"}
          => DOMAIN manager'.rooms \subseteq DOMAIN manager.rooms]_vars

=============================================================================
